---- MODULE Spec2Model ----
(***************************************************************************)
(* Lock-Protected Store of claude-workspace: safe_json_read,               *)
(* safe_json_write and safe_json_update of scripts/safe_json_operations.py *)
(* on one JSON-bearing path, called by several threads or processes.       *)
(*                                                                         *)
(* The file system is modelled at the level of the system calls the code   *)
(* makes: a path names an inode, open() yields a handle on the inode the   *)
(* path names at that moment, flock() locks the inode behind a handle,     *)
(* rename() rebinds the path to another inode, open(..., 'w') truncates.   *)
(* File contents are texts (sequences of characters); json.dump and        *)
(* json.loads are modelled as a serializer and a parser over such texts.   *)
(***************************************************************************)
EXTENDS Integers, Sequences, FiniteSets, TLC

(***************************************************************************)
(* Bounds of the model.                                                    *)
(***************************************************************************)
\* Number of concurrent callers (threads or processes) of specification Spec.
NumProcs == 2
\* Calls each caller makes, one after the other, in specification Spec.
MaxCalls == 1
\* The max_retries every call passes to SafeJSONLock (the code's default is 10).
MaxRetries == 2
\* Calls the single caller of specification SeqSpec makes.
MaxSeqCalls == 2
\* The cache manager: paths it is asked for, threads sharing it, calls per
\* thread, and how far its clock runs.
NumPaths == 2
NumThreads == 2
MaxOps == 2
MaxTime == 2
\* The consistency monitor: files it monitors, validations its batch_validate
\* calls submit, changes made to the files meanwhile, and how far its clock runs.
NumFiles == 2
MaxChecks == 10
MaxMods == 1
MaxFaults == 1
MaxNow == 20
\* The lock's retry loop on its own: the retry_delay and max_retries it is
\* constructed with.
MaxDelay == 3
MaxBudget == 10
\* The background monitoring: threads that start_monitoring may create.
MaxLoops == 3

(***************************************************************************)
(* JSON values: the Python objects json.dump accepts and json.loads        *)
(* returns.  A string is a sequence of characters, an object a sequence    *)
(* of <<key, value>> members in insertion order.                           *)
(***************************************************************************)
JNull == [t |-> "null"]
JBool(b) == [t |-> "bool", b |-> b]
JInt(n) == [t |-> "int", n |-> n]
JStr(s) == [t |-> "str", s |-> s]
JList(items) == [t |-> "list", items |-> items]
JObj(members) == [t |-> "obj", members |-> members]

Digits == <<"0", "1", "2", "3", "4", "5", "6", "7", "8", "9">>
DigitSet == {Digits[i] : i \in 1..10}
DigitVal(c) == (CHOOSE i \in 1..10 : Digits[i] = c) - 1
\* str.strip() and the json scanner's WHITESPACE, restricted to the ASCII cases.
Whitespace == {" ", "\n", "\t", "\r"}
Quote == "\""
Backslash == "\\"

RECURSIVE NatText(_)
NatText(n) == IF n < 10 THEN <<Digits[n + 1]>>
              ELSE NatText(n \div 10) \o <<Digits[(n % 10) + 1]>>
IntText(n) == IF n < 0 THEN <<"-">> \o NatText(0 - n) ELSE NatText(n)

RECURSIVE Spaces(_)
Spaces(n) == IF n = 0 THEN <<>> ELSE <<" ">> \o Spaces(n - 1)

\* A serializer that escapes nothing; the round trip C4 must tell it from
\* EscapeChar.
EscapeNothing(c) == <<c>>
\* json.encoder.encode_basestring: quote, backslash and newline are escaped.
EscapeChar(c) == IF c = Quote THEN <<Backslash, Quote>>
                 ELSE IF c = Backslash THEN <<Backslash, Backslash>>
                 ELSE IF c = "\n" THEN <<Backslash, "n">>
                 ELSE <<c>>
RECURSIVE EscapeText(_)
EscapeText(s) == IF s = <<>> THEN <<>> ELSE EscapeChar(Head(s)) \o EscapeText(Tail(s))
StrText(s) == <<Quote>> \o EscapeText(s) \o <<Quote>>

\* json.dump(data, temp_file, indent=indent, ensure_ascii=False) at nesting
\* depth `level`: members one per line, indented by indent * (level + 1).
RECURSIVE DumpAt(_, _, _), DumpItems(_, _, _, _), DumpMembers(_, _, _, _)
DumpItems(items, i, indent, level) ==
    IF i > Len(items) THEN <<>>
    ELSE (IF i > 1 THEN <<",">> ELSE <<>>)
         \o <<"\n">> \o Spaces(indent * (level + 1))
         \o DumpAt(items[i], indent, level + 1)
         \o DumpItems(items, i + 1, indent, level)
DumpMembers(members, i, indent, level) ==
    IF i > Len(members) THEN <<>>
    ELSE (IF i > 1 THEN <<",">> ELSE <<>>)
         \o <<"\n">> \o Spaces(indent * (level + 1))
         \o StrText(members[i][1]) \o <<":", " ">>
         \o DumpAt(members[i][2], indent, level + 1)
         \o DumpMembers(members, i + 1, indent, level)
DumpAt(val, indent, level) ==
    CASE val.t = "null" -> <<"n", "u", "l", "l">>
      [] val.t = "bool" -> IF val.b THEN <<"t", "r", "u", "e">>
                           ELSE <<"f", "a", "l", "s", "e">>
      [] val.t = "int"  -> IntText(val.n)
      [] val.t = "str"  -> StrText(val.s)
      [] val.t = "list" -> IF val.items = <<>> THEN <<"[", "]">>
                           ELSE <<"[">> \o DumpItems(val.items, 1, indent, level)
                                \o <<"\n">> \o Spaces(indent * level) \o <<"]">>
      [] val.t = "obj"  -> IF val.members = <<>> THEN <<"{", "}">>
                           ELSE <<"{">> \o DumpMembers(val.members, 1, indent, level)
                                \o <<"\n">> \o Spaces(indent * level) \o <<"}">>
\* safe_json_write's default indent.
Indent == 2
JsonDump(val) == DumpAt(val, Indent, 0)

(***************************************************************************)
(* json.loads: a recursive-descent parser.  Every Parse operator returns   *)
(* [ok, val, pos]: whether a value was scanned, the value, and the index   *)
(* of the first character after it.                                        *)
(***************************************************************************)
ParseError == [ok |-> FALSE, val |-> JNull, pos |-> 0]
Parsed(val, pos) == [ok |-> TRUE, val |-> val, pos |-> pos]

RECURSIVE SkipWs(_, _)
SkipWs(s, i) == IF i <= Len(s) /\ s[i] \in Whitespace THEN SkipWs(s, i + 1) ELSE i

HasAt(s, i, word) ==
    /\ i + Len(word) - 1 <= Len(s)
    /\ \A k \in 1..Len(word) : s[i + k - 1] = word[k]

\* NUMBER_RE restricted to integers: -?(0|[1-9][0-9]*).
RECURSIVE ScanDigits(_, _, _)
ScanDigits(s, i, acc) ==
    IF i <= Len(s) /\ s[i] \in DigitSet
    THEN ScanDigits(s, i + 1, acc * 10 + DigitVal(s[i]))
    ELSE [val |-> acc, pos |-> i]
ParseNat(s, i) ==
    IF i > Len(s) \/ s[i] \notin DigitSet THEN ParseError
    ELSE IF s[i] = "0" THEN Parsed(JInt(0), i + 1)
    ELSE LET d == ScanDigits(s, i, 0) IN Parsed(JInt(d.val), d.pos)
ParseNumber(s, i) ==
    IF i <= Len(s) /\ s[i] = "-"
    THEN LET r == ParseNat(s, i + 1)
         IN IF r.ok THEN Parsed(JInt(0 - r.val.n), r.pos) ELSE ParseError
    ELSE ParseNat(s, i)

\* py_scanstring (strict): the characters after the opening quote at i - 1.
RECURSIVE ScanString(_, _, _)
ScanString(s, i, acc) ==
    IF i > Len(s) THEN ParseError
    ELSE IF s[i] = Quote THEN Parsed(JStr(acc), i + 1)
    ELSE IF s[i] = Backslash
         THEN IF i + 1 > Len(s) THEN ParseError
              ELSE IF s[i + 1] \in {Quote, Backslash, "/"}
                   THEN ScanString(s, i + 2, Append(acc, s[i + 1]))
              ELSE IF s[i + 1] = "n" THEN ScanString(s, i + 2, Append(acc, "\n"))
              ELSE IF s[i + 1] = "t" THEN ScanString(s, i + 2, Append(acc, "\t"))
              ELSE IF s[i + 1] = "r" THEN ScanString(s, i + 2, Append(acc, "\r"))
              ELSE ParseError
    ELSE IF s[i] \in {"\n", "\t", "\r"} THEN ParseError
    ELSE ScanString(s, i + 1, Append(acc, s[i]))

\* dict semantics of the parsed pairs: a repeated key keeps its first place
\* and takes the last value.
PutMember(members, key, val) ==
    IF \E k \in 1..Len(members) : members[k][1] = key
    THEN [k \in 1..Len(members) |->
             IF members[k][1] = key THEN <<key, val>> ELSE members[k]]
    ELSE Append(members, <<key, val>>)

\* The one element of a singleton set.  {F(x) : x \in {e}} evaluates e once
\* and hands its value to F; the parser uses it for every sub-result it
\* looks at more than once.
Only(S) == CHOOSE x \in S : TRUE

RECURSIVE ParseValue(_, _), ParseItems(_, _, _), ParseMembers(_, _, _)
\* JSONArray after an item: s[j] is "]" (the end) or "," (one more item).
ItemsSep(s, acc, j) ==
    IF j > Len(s) THEN ParseError
    ELSE IF s[j] = "]" THEN Parsed(JList(acc), j + 1)
    ELSE IF s[j] = "," THEN ParseItems(s, SkipWs(s, j + 1), acc)
    ELSE ParseError
ItemsNext(s, acc, r) ==
    IF ~r.ok THEN ParseError
    ELSE Only({ItemsSep(s, Append(acc, r.val), j) : j \in {SkipWs(s, r.pos)}})
\* JSONArray after "[" and leading whitespace: s[i] starts the next item.
ParseItems(s, i, acc) == Only({ItemsNext(s, acc, r) : r \in {ParseValue(s, i)}})

\* JSONObject after a member: s[j] is "}" (the end) or "," (one more member).
MembersSep(s, acc, j) ==
    IF j > Len(s) THEN ParseError
    ELSE IF s[j] = "}" THEN Parsed(JObj(acc), j + 1)
    ELSE IF s[j] = "," THEN ParseMembers(s, SkipWs(s, j + 1), acc)
    ELSE ParseError
MembersValue(s, acc, key, r) ==
    IF ~r.ok THEN ParseError
    ELSE Only({MembersSep(s, PutMember(acc, key, r.val), j) : j \in {SkipWs(s, r.pos)}})
MembersColon(s, acc, key, c) ==
    IF c > Len(s) \/ s[c] # ":" THEN ParseError
    ELSE Only({MembersValue(s, acc, key, r) : r \in {ParseValue(s, SkipWs(s, c + 1))}})
MembersKey(s, acc, k) ==
    IF ~k.ok THEN ParseError
    ELSE Only({MembersColon(s, acc, k.val.s, c) : c \in {SkipWs(s, k.pos)}})
\* JSONObject after "{" and leading whitespace: s[i] must open the next key.
ParseMembers(s, i, acc) ==
    IF i > Len(s) \/ s[i] # Quote THEN ParseError
    ELSE Only({MembersKey(s, acc, k) : k \in {ScanString(s, i + 1, <<>>)}})
\* scanner.py_make_scanner's _scan_once.
ParseValue(s, i) ==
    IF i > Len(s) THEN ParseError
    ELSE IF s[i] = Quote THEN ScanString(s, i + 1, <<>>)
    ELSE IF s[i] = "{"
         THEN LET j == SkipWs(s, i + 1) IN
              IF j <= Len(s) /\ s[j] = "}" THEN Parsed(JObj(<<>>), j + 1)
              ELSE ParseMembers(s, j, <<>>)
    ELSE IF s[i] = "["
         THEN LET j == SkipWs(s, i + 1) IN
              IF j <= Len(s) /\ s[j] = "]" THEN Parsed(JList(<<>>), j + 1)
              ELSE ParseItems(s, j, <<>>)
    ELSE IF HasAt(s, i, <<"n", "u", "l", "l">>) THEN Parsed(JNull, i + 4)
    ELSE IF HasAt(s, i, <<"t", "r", "u", "e">>) THEN Parsed(JBool(TRUE), i + 4)
    ELSE IF HasAt(s, i, <<"f", "a", "l", "s", "e">>) THEN Parsed(JBool(FALSE), i + 5)
    ELSE ParseNumber(s, i)

\* json.loads(content): one value between optional whitespace, nothing after
\* it ("Extra data" otherwise).  ok = FALSE stands for json.JSONDecodeError.
LoadsEnd(s, r) == IF r.ok /\ SkipWs(s, r.pos) = Len(s) + 1 THEN r ELSE ParseError
JsonLoads(s) == Only({LoadsEnd(s, r) : r \in {ParseValue(s, SkipWs(s, 1))}})
ValidJson(s) == JsonLoads(s).ok

\* str.strip(): leading and trailing whitespace removed.
RECURSIVE StripLeft(_), StripRight(_)
StripLeft(s) == IF s # <<>> /\ Head(s) \in Whitespace THEN StripLeft(Tail(s)) ELSE s
StripRight(s) == IF s # <<>> /\ s[Len(s)] \in Whitespace
                 THEN StripRight(SubSeq(s, 1, Len(s) - 1)) ELSE s
Strip(s) == StripRight(StripLeft(s))

(***************************************************************************)
(* The callers' inputs.                                                    *)
(***************************************************************************)
Procs == 1..NumProcs
CounterKey == <<"c", "o", "u", "n", "t", "e", "r">>
ThreadKey == <<"t", "h", "r", "e", "a", "d">>
\* test_atomic_operations: the document the file is initialised with, and the
\* default its safe_json_update calls pass.
CounterDoc(n) == JObj(<< <<CounterKey, JInt(n)>> >>)
V0 == CounterDoc(0)
\* concurrent_write: the document thread q writes, cut down to the member
\* that tells the writers apart.
ThreadDoc(q) == JObj(<< <<ThreadKey, JInt(q)>> >>)
\* safe_json_read's default for `default`: None.
DefaultNone == JNull

\* dict.get(key, default) on a parsed object.
DictGet(members, key, default) ==
    IF \E k \in 1..Len(members) : members[k][1] = key
    THEN members[CHOOSE k \in 1..Len(members) : members[k][1] = key][2]
    ELSE default
LastThreadKey == <<"l", "a", "s", "t", "_", "t", "h", "r", "e", "a", "d">>
\* increment_func of thread thread_id:
\*   {"counter": data.get("counter", 0) + 1, "last_thread": thread_id}.
\* ok = FALSE stands for the exception Python raises when data is no dict or
\* the counter no number.
increment_func(data, thread_id) ==
    IF data.t # "obj" THEN [ok |-> FALSE, val |-> JNull]
    ELSE LET current == DictGet(data.members, CounterKey, JInt(0)) IN
         IF current.t # "int" THEN [ok |-> FALSE, val |-> JNull]
         ELSE [ok |-> TRUE,
               val |-> JObj(<< <<CounterKey, JInt(current.n + 1)>>,
                               <<LastThreadKey, JInt(thread_id)>> >>)]

(***************************************************************************)
(* Outcomes of a call.                                                     *)
(***************************************************************************)
NoResult == [kind |-> "none", v |-> JNull, err |-> "", cause |-> ""]
Returns(val) == [kind |-> "return", v |-> val, err |-> "", cause |-> ""]
Raises(err, cause) == [kind |-> "raise", v |-> JNull, err |-> err, cause |-> cause]
NoCall == [name |-> "none", phase |-> "none", data |-> JNull,
           default |-> JNull, backup |-> FALSE]

(***************************************************************************)
(* State.                                                                  *)
(***************************************************************************)
VARIABLES
    target,       \* the inode file_path names, 0 when file_path does not exist
    idata,        \* the content of every inode
    backup_file,  \* the sibling file_path.backup: [exists, data]
    pc,           \* where each caller is in its call
    call,         \* each caller's current (or last) call and its arguments
    file_handle,  \* SafeJSONLock.file_handle: the inode it has open, or 0
    locked,       \* SafeJSONLock.locked
    retries,      \* SafeJSONLock.__enter__'s retries
    temp_path,    \* the inode under safe_json_write's temp_path, 0 when none
    backup_path,  \* whether safe_json_write's backup_path is set
    copy_fd,      \* the inode shutil.copy2 has open (source or destination)
    content,      \* safe_json_read's content
    result,       \* the outcome of each caller's last finished call
    log,          \* the names of the calls each caller has made
    initial,      \* history: the file under file_path initially, [exists, data]
    snap,         \* history: the file under file_path (and its inode) when a
                  \* write with backup or an update began
    everData      \* history: file_path has held non-blank content

vars == <<target, idata, backup_file, pc, call, file_handle, locked, retries,
          temp_path, backup_path, copy_fd, content, result, log, initial, snap,
          everData>>

(***************************************************************************)
(* State of the cache manager (json_cache_manager), one per process,       *)
(* shared by the threads of that process, in front of the files of         *)
(* NumPaths paths.                                                         *)
(***************************************************************************)
VARIABLES
    files,          \* per path, the file on disk: [exists, data, mtime]
    cache,          \* per path, the cache entry, NoEntry when there is none
    lru,            \* the paths in the cache, least recently used first
    pending_writes, \* the queue of deferred writes: [path, value, time]
    now,            \* the wall clock
    tpc,            \* where each thread is: "idle" or "flushing"
    drained,        \* the pending writes a flushing thread has still to write
    flush_results,  \* the map path -> success a flushing thread has built
    last,           \* each thread's last completed call and what it returned
    ops,            \* the number of calls each thread has made
    agreed,         \* per path: the value of the last write to it, when that
                    \* write was a write_json(immediate=True) that succeeded
    quiet           \* per thread: it has drained the queue in a flush_writes
                    \* and no write_json was called since

cvars == <<files, cache, lru, pending_writes, now, tpc, drained, flush_results,
           last, ops, agreed, quiet>>

Paths == 1..NumPaths
Threads == 1..NumThreads
\* The configuration of the cache: capacity, eviction slack, time to live.
max_cache_size == 1
evict_slack == 0
cache_ttl == 1

NoEntry == [present |-> FALSE, value |-> JNull, cached_at |-> 0,
            file_mtime |-> 0, dirty |-> FALSE]
Entry(value, at, mtime, dirty) ==
    [present |-> TRUE, value |-> value, cached_at |-> at,
     file_mtime |-> mtime, dirty |-> dirty]
NoDisk == [exists |-> FALSE, data |-> <<>>, mtime |-> 0]
NoLast == [op |-> "none", path |-> 0, value |-> JNull, success |-> TRUE,
           hit |-> FALSE, stale |-> FALSE, age |-> 0, store_read |-> FALSE,
           store_writes |-> 0, results |-> <<>>]
NoAgreed == [set |-> FALSE, value |-> JNull]

\* The cache manager as constructed, over files that do not exist yet.
CacheThreadsIdle ==
    /\ cache = [p \in Paths |-> NoEntry]
    /\ lru = <<>>
    /\ pending_writes = <<>>
    /\ now = 0
    /\ tpc = [t \in Threads |-> "idle"]
    /\ drained = [t \in Threads |-> <<>>]
    /\ flush_results = [t \in Threads |-> <<>>]
    /\ last = [t \in Threads |-> NoLast]
    /\ ops = [t \in Threads |-> 0]
    /\ agreed = [p \in Paths |-> NoAgreed]
    /\ quiet = [t \in Threads |-> FALSE]
CacheIdle ==
    /\ files = [p \in Paths |-> NoDisk]
    /\ CacheThreadsIdle

(***************************************************************************)
(* State of SmartConsistencyMonitor, and of the files it monitors.         *)
(***************************************************************************)
VARIABLES
    mon_files,      \* per monitored file, the file on disk: [exists, data, mtime]
    mon_now,        \* time.time()
    use_cache,      \* USE_CACHE: json_cache_manager could be imported
    file_states,    \* self.file_states: per file its FileState, NoState if none
    dirty_files,    \* self.dirty_files
    stable_files,   \* self.stable_files
    stats,          \* self.stats
    bpc,            \* where batch_validate is: "idle", "collect", "shutdown"
    force_all,      \* batch_validate's force_all
    files_to_check, \* batch_validate's files_to_check, in submission order
    futures,        \* per file, its future: "none", "pending" or "done"
    future_result,  \* per file, what _validate_json_file returned
    results,        \* batch_validate's results
    summary,        \* what the last batch_validate returned
    content_reads,  \* per file, how many times its content has been read
    nchecks,        \* the number of validations submitted so far
    nmods,          \* the number of changes made to the files
    nfaults         \* the number of validations that met a fault

mvars == <<mon_files, mon_now, use_cache, file_states, dirty_files, stable_files,
           stats, bpc, force_all, files_to_check, futures, future_result, results,
           summary, content_reads, nchecks, nmods, nfaults>>

(***************************************************************************)
(* State of one run of SafeJSONLock.__enter__'s retry loop.                *)
(***************************************************************************)
VARIABLES
    retry_delay,    \* self.retry_delay, in tenths of a second
    max_retries,    \* self.max_retries
    attempts,       \* the loop's `retries`
    waits,          \* the arguments of the time.sleep calls made so far
    lock_pc         \* "try", "held" or "raised"

bvars == <<retry_delay, max_retries, attempts, waits, lock_pc>>

(***************************************************************************)
(* State of the validation workers between their reads and their writes    *)
(* of the shared statistics.                                               *)
(***************************************************************************)
VARIABLES
    wpc,            \* per file, where its worker is: "idle", "loaded", "counting"
    reg             \* per file, the counter value its worker has read

rvars == <<wpc, reg>>

(***************************************************************************)
(* State of the background monitoring: start_monitoring, stop_monitoring   *)
(* and the threads running _monitor_loop.                                  *)
(***************************************************************************)
VARIABLES
    running,        \* self.running
    monitor_thread, \* self.monitor_thread: a thread, or 0 for None
    lpc,            \* per thread: "unborn", "test", "batch", "sleep", "exited"
    main_pc         \* the caller of start/stop: "idle" or "join"

lvars == <<running, monitor_thread, lpc, main_pc>>

MonFiles == 1..NumFiles
LoopThreads == 1..MaxLoops
\* SmartConsistencyMonitor.__init__: performance tuning.
min_check_interval == 10
max_check_interval == 300
stable_threshold == 5

NoState == [known |-> FALSE, last_check |-> 0, last_mtime |-> 0, last_size |-> 0,
            is_dirty |-> FALSE, check_count |-> 0, error_count |-> 0]
FileState(at, mtime, size, dirty, count, errors) ==
    [known |-> TRUE, last_check |-> at, last_mtime |-> mtime, last_size |-> size,
     is_dirty |-> dirty, check_count |-> count, error_count |-> errors]
NoValidation == [path |-> 0, status |-> "none", stable |-> FALSE]
NoSummary == [status |-> "none", checked |-> 0, valid |-> 0, invalid |-> 0,
              errors |-> 0, dirty |-> 0, stable |-> 0, results |-> <<>>]

\* SmartConsistencyMonitor.__init__, before any file is looked at.
MonitorIdle ==
    /\ mon_files = [f \in MonFiles |-> NoDisk]
    /\ mon_now = 0
    /\ use_cache = FALSE
    /\ file_states = [f \in MonFiles |-> NoState]
    /\ dirty_files = {}
    /\ stable_files = {}
    /\ stats = [total_checks |-> 0, dirty_detections |-> 0, batch_validations |-> 0,
                errors |-> 0]
    /\ bpc = "idle"
    /\ force_all = FALSE
    /\ files_to_check = <<>>
    /\ futures = [f \in MonFiles |-> "none"]
    /\ future_result = [f \in MonFiles |-> NoValidation]
    /\ results = <<>>
    /\ summary = NoSummary
    /\ content_reads = [f \in MonFiles |-> 0]
    /\ nchecks = 0
    /\ nmods = 0
    /\ nfaults = 0
\* No validation worker is running.
RaceIdle ==
    /\ wpc = [f \in MonFiles |-> "idle"]
    /\ reg = [f \in MonFiles |-> 0]
\* SmartConsistencyMonitor.__init__: not running, no thread.
LoopIdle ==
    /\ running = FALSE
    /\ monitor_thread = 0
    /\ lpc = [t \in LoopThreads |-> "unborn"]
    /\ main_pc = "idle"
\* SafeJSONLock.__init__
BackoffIdle ==
    /\ retry_delay = 1
    /\ max_retries = 1
    /\ attempts = 0
    /\ waits = <<>>
    /\ lock_pc = "try"

\* Inode 1 is the file created first under file_path; the temporary file of
\* caller q's k-th call is inode TempInode(q, k).
CallsPerProc == IF MaxCalls > MaxSeqCalls THEN MaxCalls ELSE MaxSeqCalls
Inodes == 1..(1 + NumProcs * CallsPerProc)
TempInode(q, k) == 1 + (q - 1) * CallsPerProc + k

\* An inode lives while a path names it or a handle is open on it.
Live(i, tgt, tmp, fh, cfd) ==
    \/ i = tgt
    \/ \E q \in Procs : tmp[q] = i \/ fh[q] = i \/ cfd[q] = i
Collect(d, tgt, tmp, fh, cfd) ==
    [i \in Inodes |-> IF Live(i, tgt, tmp, fh, cfd) THEN d[i] ELSE <<>>]

Blank(text) == Strip(text) = <<>>
NoFile == [exists |-> FALSE, data |-> <<>>]
NoSnap == [exists |-> FALSE, data |-> <<>>, ino |-> 0]
\* The file under file_path: whether it exists, and its content.
FileNow == IF target = 0 THEN NoFile ELSE [exists |-> TRUE, data |-> idata[target]]
HoldsData(tgt, d) == tgt # 0 /\ ~Blank(d[tgt])

\* flock(LOCK_EX | LOCK_NB) on a handle fails while another open handle
\* holds a lock on the same inode.
LockHeldByOther(q, i) == \E r \in Procs \ {q} : file_handle[r] = i /\ locked[r]
HoldsLock(q) == file_handle[q] # 0 /\ locked[q]

\* write(fd, text) at offset 0 of a file: the bytes beyond the text stay.
Overwrite(old, text) == text \o SubSeq(old, Len(text) + 1, Len(old))

Mode(q) == IF call[q].phase = "write" THEN "w" ELSE "r"

InitFiles(tgt, text) ==
    /\ target = tgt
    /\ idata = [i \in Inodes |-> IF i = tgt THEN text ELSE <<>>]
    /\ backup_file = NoFile
    /\ initial = [exists |-> tgt # 0, data |-> text]
    /\ everData = (tgt # 0 /\ ~Blank(text))
InitProcs ==
    /\ pc = [q \in Procs |-> "idle"]
    /\ call = [q \in Procs |-> NoCall]
    /\ file_handle = [q \in Procs |-> 0]
    /\ locked = [q \in Procs |-> FALSE]
    /\ retries = [q \in Procs |-> 0]
    /\ temp_path = [q \in Procs |-> 0]
    /\ backup_path = [q \in Procs |-> FALSE]
    /\ copy_fd = [q \in Procs |-> 0]
    /\ content = [q \in Procs |-> <<>>]
    /\ result = [q \in Procs |-> NoResult]
    /\ log = [q \in Procs |-> <<>>]
    /\ snap = [q \in Procs |-> NoSnap]
\* file_path is absent, is an empty file (one just created), or holds the
\* document test_atomic_operations starts from.
Init ==
    /\ InitProcs
    /\ CacheIdle
    /\ MonitorIdle
    /\ RaceIdle
    /\ LoopIdle
    /\ BackoffIdle
    /\ \/ InitFiles(0, <<>>)
       \/ InitFiles(1, <<>>)
       \/ InitFiles(1, JsonDump(V0))

(***************************************************************************)
(* How a call proceeds and ends.                                           *)
(***************************************************************************)
Goto(q, c, p) ==
    /\ pc' = [pc EXCEPT ![q] = p]
    /\ call' = [call EXCEPT ![q] = c]
    /\ result' = [result EXCEPT ![q] = NoResult]
EndCall(q, c, outcome) ==
    /\ pc' = [pc EXCEPT ![q] = "idle"]
    /\ call' = [call EXCEPT ![q] = c]
    /\ result' = [result EXCEPT ![q] = outcome]
RootCause(outcome) == IF outcome.cause # "" THEN outcome.cause ELSE outcome.err

\* safe_json_update going on to write its default when its read has failed
\* or update_func has raised.  C32 must tell it from ReadDone.
ReadDoneWritesAnyway(q, c, outcome) ==
    IF c.name = "update"
    THEN IF outcome.kind = "raise"
         THEN Goto(q, [c EXCEPT !.phase = "write", !.data = c.default], "w_begin")
         ELSE \E updated_data \in {increment_func(outcome.v, q)} :
              IF ~updated_data.ok
              THEN Goto(q, [c EXCEPT !.phase = "write", !.data = c.default],
                        "w_begin")
              ELSE Goto(q, [c EXCEPT !.phase = "write", !.data = updated_data.val],
                        "w_begin")
    ELSE EndCall(q, c, outcome)
\* safe_json_update applying update_func to its default instead of the value
\* it has read.  C12 must tell it from ReadDone.
ReadDoneIgnoresRead(q, c, outcome) ==
    IF c.name = "update"
    THEN IF outcome.kind = "raise"
         THEN EndCall(q, c, Raises("UpdateFailed", RootCause(outcome)))
         ELSE \E updated_data \in {increment_func(c.default, q)} :
              IF ~updated_data.ok
              THEN EndCall(q, c, Raises("UpdateFailed", "update_func"))
              ELSE Goto(q, [c EXCEPT !.phase = "write", !.data = updated_data.val],
                        "w_begin")
    ELSE EndCall(q, c, outcome)

\* safe_json_read ends with `outcome`: the end of a read call, or the point
\* where safe_json_update applies update_func and goes on to write.
ReadDone(q, c, outcome) ==
    IF c.name = "update"
    THEN IF outcome.kind = "raise"
         THEN EndCall(q, c, Raises("UpdateFailed", RootCause(outcome)))
         ELSE \E updated_data \in {increment_func(outcome.v, q)} :
              IF ~updated_data.ok
              THEN EndCall(q, c, Raises("UpdateFailed", "update_func"))
              ELSE Goto(q, [c EXCEPT !.phase = "write", !.data = updated_data.val],
                        "w_begin")
    ELSE EndCall(q, c, outcome)

\* safe_json_write ends with `outcome`: the end of a write call, or of
\* safe_json_update, which returns updated_data.
WriteDone(q, c, outcome) ==
    IF c.name = "update"
    THEN IF outcome.kind = "raise"
         THEN EndCall(q, c, Raises("UpdateFailed", RootCause(outcome)))
         ELSE EndCall(q, c, Returns(c.data))
    ELSE EndCall(q, c, outcome)

\* The value safe_json_read computes from the stripped content it has read.
LoadsOutcome(r) == IF r.ok THEN Returns(r.val) ELSE Raises("InvalidFormat", "")
\* safe_json_read without its `if not content` test: json.loads gets the
\* empty content.  C8 must tell it from ReadOutcome.
ReadOutcomeNoEmptyTest(text, default) ==
    Only({LoadsOutcome(r) : r \in {JsonLoads(text)}})
\* safe_json_read swallowing the decode error and returning the default.  C9
\* must tell it from ReadOutcome.
ReadOutcomeSwallowsError(text, default) ==
    IF text = <<>> \/ ~ValidJson(text) THEN Returns(default)
    ELSE Returns(JsonLoads(text).val)
ReadOutcome(text, default) ==
    IF text = <<>> THEN Returns(default)
    ELSE Only({LoadsOutcome(r) : r \in {JsonLoads(text)}})

\* The head of safe_json_write: backup_path is set when backup is asked for
\* and file_path exists.
WriteBegin(q, c) ==
    /\ backup_path' = [backup_path EXCEPT ![q] = c.backup /\ target # 0]
    /\ Goto(q, c, IF c.backup /\ target # 0 THEN "w_backup_open" ELSE "w_mkstemp")

\* A caller starts a call.  The history keeps the file as it is now for a
\* write that takes a backup, the call whose failure is meant to restore it,
\* and for an update, the call whose result depends on it.
NewCall(q, name, data, backup) ==
    /\ pc[q] = "idle"
    /\ log' = [log EXCEPT ![q] = Append(@, [name |-> name, data |-> data])]
    /\ snap' = [snap EXCEPT ![q] =
                   IF (name = "write" /\ backup) \/ name = "update"
                   THEN [exists |-> target # 0, data |-> FileNow.data, ino |-> target]
                   ELSE NoSnap]
    /\ retries' = [retries EXCEPT ![q] = 0]
    /\ content' = [content EXCEPT ![q] = <<>>]

(***************************************************************************)
(* The calls.                                                              *)
(***************************************************************************)
\* safe_json_read(file_path, default): a missing file yields the default.
safe_json_read(q, default) ==
    LET c == [name |-> "read", phase |-> "read", data |-> JNull,
              default |-> default, backup |-> FALSE] IN
    /\ NewCall(q, "read", JNull, FALSE)
    /\ IF target = 0 THEN ReadDone(q, c, Returns(default)) ELSE Goto(q, c, "enter")
    /\ backup_path' = [backup_path EXCEPT ![q] = FALSE]
    /\ UNCHANGED <<target, idata, backup_file, file_handle, locked, temp_path,
                   copy_fd, initial, everData>>

\* safe_json_write(file_path, data, backup=backup).
safe_json_write(q, data, backup) ==
    LET c == [name |-> "write", phase |-> "write", data |-> data,
              default |-> JNull, backup |-> backup] IN
    /\ NewCall(q, "write", data, backup)
    /\ WriteBegin(q, c)
    /\ UNCHANGED <<target, idata, backup_file, file_handle, locked, temp_path,
                   copy_fd, initial, everData>>

\* safe_json_update(file_path, increment_func, default, backup=backup): it
\* starts with safe_json_read(file_path, default).
safe_json_update(q, default, backup) ==
    LET c == [name |-> "update", phase |-> "read", data |-> JNull,
              default |-> default, backup |-> backup] IN
    /\ NewCall(q, "update", JNull, backup)
    /\ IF target = 0 THEN ReadDone(q, c, Returns(default)) ELSE Goto(q, c, "enter")
    /\ backup_path' = [backup_path EXCEPT ![q] = FALSE]
    /\ UNCHANGED <<target, idata, backup_file, file_handle, locked, temp_path,
                   copy_fd, initial, everData>>

\* safe_json_update's call of safe_json_write with updated_data.
UpdateWrite(q) ==
    /\ pc[q] = "w_begin"
    /\ UNCHANGED <<cvars, mvars, bvars, rvars, lvars>>
    /\ WriteBegin(q, call[q])
    /\ UNCHANGED <<target, idata, backup_file, file_handle, locked, retries,
                   temp_path, copy_fd, content, log, initial, snap, everData>>

(***************************************************************************)
(* safe_json_write before the lock: the backup and the temporary file.     *)
(***************************************************************************)
\* shutil.copy2(file_path, backup_path) opens the source, then opens the
\* destination for writing, which truncates it.  A failure is not fatal.
BackupOpen(q) ==
    /\ pc[q] = "w_backup_open"
    /\ UNCHANGED <<cvars, mvars, bvars, rvars, lvars>>
    /\ IF target = 0
       THEN /\ Goto(q, call[q], "w_mkstemp")
            /\ UNCHANGED <<backup_file, copy_fd>>
       ELSE /\ copy_fd' = [copy_fd EXCEPT ![q] = target]
            /\ backup_file' = [exists |-> TRUE, data |-> <<>>]
            /\ Goto(q, call[q], "w_backup_copy")
    /\ UNCHANGED <<target, idata, file_handle, locked, retries, temp_path,
                   backup_path, content, log, initial, snap, everData>>

\* shutil.copy2 transfers what the source inode holds now and closes both.
BackupCopy(q) ==
    /\ pc[q] = "w_backup_copy"
    /\ UNCHANGED <<cvars, mvars, bvars, rvars, lvars>>
    /\ backup_file' = [exists |-> TRUE,
                       data |-> Overwrite(backup_file.data, idata[copy_fd[q]])]
    /\ copy_fd' = [copy_fd EXCEPT ![q] = 0]
    /\ idata' = Collect(idata, target, temp_path, file_handle, copy_fd')
    /\ Goto(q, call[q], "w_mkstemp")
    /\ UNCHANGED <<target, file_handle, locked, retries, temp_path, backup_path,
                   content, log, initial, snap, everData>>

\* tempfile.mkstemp in the directory of file_path, json.dump into it, fsync.
Mkstemp(q) ==
    LET ino == TempInode(q, Len(log[q])) IN
    /\ pc[q] = "w_mkstemp"
    /\ UNCHANGED <<cvars, mvars, bvars, rvars, lvars>>
    /\ temp_path' = [temp_path EXCEPT ![q] = ino]
    /\ idata' = [idata EXCEPT ![ino] = JsonDump(call[q].data)]
    /\ Goto(q, call[q], "enter")
    /\ UNCHANGED <<target, backup_file, file_handle, locked, retries, backup_path,
                   copy_fd, content, log, initial, snap, everData>>

(***************************************************************************)
(* SafeJSONLock.                                                           *)
(***************************************************************************)
\* The lock was not acquired: safe_json_read raises, safe_json_write goes to
\* its except block.
LockFailed(q) ==
    IF Mode(q) = "r"
    THEN ReadDone(q, call[q], Raises("LockTimeout", ""))
    ELSE Goto(q, call[q], "w_cleanup")

\* SafeJSONLock.__enter__ before its loop: mode 'w' creates a missing file
\* (touch), mode 'r' raises for one.
LockEnter(q) ==
    /\ pc[q] = "enter"
    /\ UNCHANGED <<cvars, mvars, bvars, rvars, lvars>>
    /\ retries' = [retries EXCEPT ![q] = 0]
    /\ IF Mode(q) = "w"
       THEN /\ target' = IF target = 0 THEN 1 ELSE target
            /\ Goto(q, call[q], "open")
       ELSE /\ target' = target
            /\ IF target = 0
               THEN ReadDone(q, call[q], Raises("ReadFailed", "NotFound"))
               ELSE Goto(q, call[q], "open")
    /\ UNCHANGED <<idata, backup_file, file_handle, locked, temp_path, backup_path,
                   copy_fd, content, log, initial, snap, everData>>

\* One pass of the loop, up to open(self.file_path, self.mode): mode 'w'
\* truncates the file the path names (and creates a missing one); a failed
\* open leaves no handle, which LockFlock treats as the failed attempt.
LockOpen(q) ==
    /\ pc[q] = "open"
    /\ UNCHANGED <<cvars, mvars, bvars, rvars, lvars>>
    /\ IF retries[q] < MaxRetries
       THEN IF Mode(q) = "w"
            THEN LET ino == IF target = 0 THEN 1 ELSE target IN
                 /\ target' = ino
                 /\ idata' = [idata EXCEPT ![ino] = <<>>]
                 /\ file_handle' = [file_handle EXCEPT ![q] = ino]
                 /\ Goto(q, call[q], "flock")
            ELSE /\ file_handle' = [file_handle EXCEPT ![q] = target]
                 /\ Goto(q, call[q], "flock")
                 /\ UNCHANGED <<target, idata>>
       ELSE /\ LockFailed(q)
            /\ UNCHANGED <<target, idata, file_handle>>
    /\ UNCHANGED <<backup_file, locked, retries, temp_path, backup_path, copy_fd,
                   content, log, initial, snap, everData>>

\* __enter__ whose except branch leaves the handle of the failed attempt
\* open.  C6 must tell it from LockFlock.
LockFlockKeepsHandle(q) ==
    /\ pc[q] = "flock"
    /\ UNCHANGED <<cvars, mvars, bvars, rvars, lvars>>
    /\ IF file_handle[q] # 0 /\ ~LockHeldByOther(q, file_handle[q])
       THEN /\ locked' = [locked EXCEPT ![q] = TRUE]
            /\ Goto(q, call[q], IF Mode(q) = "w" THEN "w_rename" ELSE "r_read")
            /\ UNCHANGED <<file_handle, retries, idata>>
       ELSE /\ UNCHANGED <<file_handle, idata, locked>>
            /\ retries' = [retries EXCEPT ![q] = @ + 1]
            /\ IF retries[q] + 1 >= MaxRetries
               THEN LockFailed(q)
               ELSE Goto(q, call[q], "open")
    /\ UNCHANGED <<target, backup_file, temp_path, backup_path, copy_fd, content,
                   log, initial, snap, everData>>

\* __enter__ whose except branch does not count the failed attempt.  C7 must
\* tell it from LockFlock.
LockFlockCountsNothing(q) ==
    /\ pc[q] = "flock"
    /\ UNCHANGED <<cvars, mvars, bvars, rvars, lvars>>
    /\ IF file_handle[q] # 0 /\ ~LockHeldByOther(q, file_handle[q])
       THEN /\ locked' = [locked EXCEPT ![q] = TRUE]
            /\ Goto(q, call[q], IF Mode(q) = "w" THEN "w_rename" ELSE "r_read")
            /\ UNCHANGED <<file_handle, idata>>
       ELSE /\ file_handle' = [file_handle EXCEPT ![q] = 0]
            /\ idata' = Collect(idata, target, temp_path, file_handle', copy_fd)
            /\ locked' = locked
            /\ Goto(q, call[q], "open")
    /\ UNCHANGED <<target, backup_file, retries, temp_path, backup_path, copy_fd,
                   content, log, initial, snap, everData>>

\* fcntl.flock(LOCK_EX | LOCK_NB) and the except branch: the handle is closed,
\* retries counted, and the last failure raises; otherwise the loop sleeps
\* and tries again.
LockFlock(q) ==
    /\ pc[q] = "flock"
    /\ UNCHANGED <<cvars, mvars, bvars, rvars, lvars>>
    /\ IF file_handle[q] # 0 /\ ~LockHeldByOther(q, file_handle[q])
       THEN /\ locked' = [locked EXCEPT ![q] = TRUE]
            /\ Goto(q, call[q], IF Mode(q) = "w" THEN "w_rename" ELSE "r_read")
            /\ UNCHANGED <<file_handle, retries, idata>>
       ELSE /\ file_handle' = [file_handle EXCEPT ![q] = 0]
            /\ idata' = Collect(idata, target, temp_path, file_handle', copy_fd)
            /\ retries' = [retries EXCEPT ![q] = @ + 1]
            /\ locked' = locked
            /\ IF retries[q] + 1 >= MaxRetries
               THEN LockFailed(q)
               ELSE Goto(q, call[q], "open")
    /\ UNCHANGED <<target, backup_file, temp_path, backup_path, copy_fd, content,
                   log, initial, snap, everData>>

\* SafeJSONLock.__exit__: unlock and close; then the with block's value is
\* returned (safe_json_read parses the content it read, safe_json_write
\* returns True).
LockExit(q) ==
    /\ pc[q] = "exit"
    /\ UNCHANGED <<cvars, mvars, bvars, rvars, lvars>>
    /\ file_handle' = [file_handle EXCEPT ![q] = 0]
    /\ locked' = [locked EXCEPT ![q] = FALSE]
    /\ idata' = Collect(idata, target, temp_path, file_handle', copy_fd)
    /\ IF Mode(q) = "r"
       THEN \E outcome \in {ReadOutcome(content[q], call[q].default)} :
                ReadDone(q, call[q], outcome)
       ELSE WriteDone(q, call[q], Returns(JBool(TRUE)))
    /\ UNCHANGED <<target, backup_file, retries, temp_path, backup_path, copy_fd,
                   content, log, initial, snap, everData>>

(***************************************************************************)
(* The bodies under the lock.                                              *)
(***************************************************************************)
\* content = f.read().strip()
ReadBody(q) ==
    /\ pc[q] = "r_read"
    /\ UNCHANGED <<cvars, mvars, bvars, rvars, lvars>>
    /\ content' = [content EXCEPT ![q] = Strip(idata[file_handle[q]])]
    /\ Goto(q, call[q], "exit")
    /\ UNCHANGED <<target, idata, backup_file, file_handle, locked, retries,
                   temp_path, backup_path, copy_fd, log, initial, snap, everData>>

\* temp_path.rename(file_path): the path now names the temporary file's inode.
WriteRename(q) ==
    /\ pc[q] = "w_rename"
    /\ UNCHANGED <<cvars, mvars, bvars, rvars, lvars>>
    /\ target' = temp_path[q]
    /\ temp_path' = [temp_path EXCEPT ![q] = 0]
    /\ idata' = Collect(idata, target', temp_path', file_handle, copy_fd)
    /\ everData' = (everData \/ HoldsData(target', idata'))
    /\ Goto(q, call[q], "exit")
    /\ UNCHANGED <<backup_file, file_handle, locked, retries, backup_path, copy_fd,
                   content, log, initial, snap>>

(***************************************************************************)
(* safe_json_write's except block.                                         *)
(***************************************************************************)
\* An except block that does not unlink the temporary file.  C11 must tell
\* it from WriteCleanup.
WriteCleanupKeepsTemp(q) ==
    /\ pc[q] = "w_cleanup"
    /\ UNCHANGED <<cvars, mvars, bvars, rvars, lvars>>
    /\ IF backup_path[q] /\ backup_file.exists
       THEN Goto(q, call[q], "w_restore_open")
       ELSE WriteDone(q, call[q], Raises("WriteFailed", "LockTimeout"))
    /\ UNCHANGED <<target, idata, backup_file, file_handle, locked, retries,
                   temp_path, backup_path, copy_fd, content, log, initial, snap,
                   everData>>

\* temp_path.unlink(), then the test `backup_path and backup_path.exists()`.
WriteCleanup(q) ==
    /\ pc[q] = "w_cleanup"
    /\ UNCHANGED <<cvars, mvars, bvars, rvars, lvars>>
    /\ temp_path' = [temp_path EXCEPT ![q] = 0]
    /\ idata' = Collect(idata, target, temp_path', file_handle, copy_fd)
    /\ IF backup_path[q] /\ backup_file.exists
       THEN Goto(q, call[q], "w_restore_open")
       ELSE WriteDone(q, call[q], Raises("WriteFailed", "LockTimeout"))
    /\ UNCHANGED <<target, backup_file, file_handle, locked, retries, backup_path,
                   copy_fd, content, log, initial, snap, everData>>

\* shutil.copy2(backup_path, file_path) opens file_path for writing, which
\* truncates the file the path names now.
RestoreOpen(q) ==
    LET ino == IF target = 0 THEN 1 ELSE target IN
    /\ pc[q] = "w_restore_open"
    /\ UNCHANGED <<cvars, mvars, bvars, rvars, lvars>>
    /\ target' = ino
    /\ idata' = [idata EXCEPT ![ino] = <<>>]
    /\ copy_fd' = [copy_fd EXCEPT ![q] = ino]
    /\ Goto(q, call[q], "w_restore_copy")
    /\ UNCHANGED <<backup_file, file_handle, locked, retries, temp_path,
                   backup_path, content, log, initial, snap, everData>>

\* shutil.copy2 writes what the backup holds now into the inode it opened and
\* closes it; safe_json_write then raises.
RestoreCopy(q) ==
    LET ino == copy_fd[q] IN
    /\ pc[q] = "w_restore_copy"
    /\ UNCHANGED <<cvars, mvars, bvars, rvars, lvars>>
    /\ copy_fd' = [copy_fd EXCEPT ![q] = 0]
    /\ idata' = Collect([idata EXCEPT ![ino] = Overwrite(@, backup_file.data)],
                        target, temp_path, file_handle, copy_fd')
    /\ everData' = (everData \/ HoldsData(target, idata'))
    /\ WriteDone(q, call[q], Raises("WriteFailed", "LockTimeout"))
    /\ UNCHANGED <<target, backup_file, file_handle, locked, retries, temp_path,
                   backup_path, content, log, initial, snap>>

(***************************************************************************)
(* Specification Spec: NumProcs callers, each making up to MaxCalls calls. *)
(***************************************************************************)
Step(q) ==
    \/ UpdateWrite(q)
    \/ BackupOpen(q)
    \/ BackupCopy(q)
    \/ Mkstemp(q)
    \/ LockEnter(q)
    \/ LockOpen(q)
    \/ LockFlock(q)
    \/ LockExit(q)
    \/ ReadBody(q)
    \/ WriteRename(q)
    \/ WriteCleanup(q)
    \/ RestoreOpen(q)
    \/ RestoreCopy(q)

Call(q) ==
    /\ Len(log[q]) < MaxCalls
    /\ UNCHANGED <<cvars, mvars, bvars, rvars, lvars>>
    /\ \/ safe_json_read(q, DefaultNone)
       \/ \E backup \in BOOLEAN : safe_json_write(q, ThreadDoc(q), backup)
       \/ safe_json_update(q, V0, TRUE)

Next == \E q \in Procs : Call(q) \/ Step(q)

Spec == Init /\ [][Next]_<<vars, cvars, mvars, bvars, rvars, lvars>>

(***************************************************************************)
(* Specification SeqSpec: one caller, alone on the path, making up to      *)
(* MaxSeqCalls calls one after the other, over a wider range of documents  *)
(* and of initial file contents.  With no second caller no lock attempt    *)
(* fails, so safe_json_write's except block is never entered.              *)
(***************************************************************************)
Key(c) == <<c>>
\* test_safe_json_operations: {"test": "data", "number": 42, "list": [1, 2, 3]}
TestData ==
    JObj(<< <<<<"t", "e", "s", "t">>, JStr(<<"d", "a", "t", "a">>)>>,
            <<<<"n", "u", "m", "b", "e", "r">>, JInt(42)>>,
            <<<<"l", "i", "s", "t">>, JList(<<JInt(1), JInt(2), JInt(3)>>)>> >>)
SeqValues ==
    { JNull, JBool(TRUE), JBool(FALSE), JInt(0), JInt(42), JInt(-7), JInt(1000),
      JStr(<<>>), JStr(<<"a">>), JStr(<<" ">>),
      JStr(<<"a", Quote, "b", Backslash, "\n", "c">>),
      JList(<<>>), JObj(<<>>), JList(<<JNull, JBool(FALSE), JStr(<<"x">>)>>),
      JList(<<JList(<<>>), JObj(<<>>)>>),
      JObj(<< <<Key("a"), JList(<<JObj(<< <<Key("b"), JNull>> >>)>>)>>,
              <<<<>>, JInt(-1)>> >>),
      TestData, V0, CounterDoc(9), ThreadDoc(1),
      JObj(<< <<CounterKey, JStr(<<"1">>)>> >>) }

\* backend_performance_test.test_error_handling: "invalid json content"
InvalidText == <<"i", "n", "v", "a", "l", "i", "d", " ", "j", "s", "o", "n", " ",
                 "c", "o", "n", "t", "e", "n", "t">>
SeqTexts ==
    { <<>>, <<"\n">>, <<" ", "\t", "\r", "\n">>,
      InvalidText,
      SubSeq(JsonDump(V0), 1, 6),
      JsonDump(V0) \o <<"}">>,
      <<"[", "1", ",", "]">>,
      JsonDump(V0),
      <<"\n", " ">> \o JsonDump(TestData) \o <<"\n">>,
      <<"{", Quote, "a", Quote, ":", "1", ",", Quote, "a", Quote, ":", "2", "}">> }

SeqInit ==
    /\ InitProcs
    /\ CacheIdle
    /\ MonitorIdle
    /\ RaceIdle
    /\ LoopIdle
    /\ BackoffIdle
    /\ \/ InitFiles(0, <<>>)
       \/ \E text \in SeqTexts : InitFiles(1, text)

SeqCall ==
    /\ Len(log[1]) < MaxSeqCalls
    /\ UNCHANGED <<cvars, mvars, bvars, rvars, lvars>>
    /\ \/ safe_json_read(1, DefaultNone)
       \/ \E data \in SeqValues, backup \in BOOLEAN : safe_json_write(1, data, backup)
       \/ safe_json_update(1, V0, TRUE)

SeqStep ==
    \/ UpdateWrite(1)
    \/ BackupOpen(1)
    \/ BackupCopy(1)
    \/ Mkstemp(1)
    \/ LockEnter(1)
    \/ LockOpen(1)
    \/ LockFlock(1)
    \/ LockExit(1)
    \/ ReadBody(1)
    \/ WriteRename(1)

SeqNext == SeqCall \/ SeqStep

SeqSpec == SeqInit /\ [][SeqNext]_<<vars, cvars, mvars, bvars, rvars, lvars>>

(***************************************************************************)
(* Specification FairSpec: Spec with caller 1 scheduled fairly.  Its       *)
(* thread keeps running whatever the other callers do; they may stop       *)
(* anywhere, also while they hold the lock.                                *)
(***************************************************************************)
FairSpec == Spec /\ WF_vars(Step(1))

(***************************************************************************)
(* The cache manager.  Its calls into the store are taken whole: what       *)
(* safe_json_read and safe_json_write do to a file when they run alone on  *)
(* it, `busy` telling whether another process keeps the lock of the file   *)
(* for the whole retry budget of the call.                                 *)
(***************************************************************************)
\* The document a thread passes to write_json in its k-th call.
CacheDoc(k) == CounterDoc(k)

\* safe_json_read(file_path, default) on file f.
StoreRead(f, default, busy) ==
    IF ~f.exists THEN Returns(default)
    ELSE IF busy THEN Raises("LockTimeout", "")
    ELSE ReadOutcome(Strip(f.data), default)
\* safe_json_write that leaves the file as it was and still returns True.
\* C15 must tell it from StoreWritten.
StoreWrittenNothing(f, data) ==
    [exists |-> TRUE, data |-> f.data, mtime |-> f.mtime + 1]
\* The file after safe_json_write(file_path, data) has returned True.
StoreWritten(f, data) ==
    [exists |-> TRUE, data |-> JsonDump(data), mtime |-> f.mtime + 1]
\* The file after safe_json_write has raised on a lock it could not take: a
\* missing file has been created empty by the lock's touch; an existing one
\* has been truncated by open(..., 'w') and copied back from the backup,
\* content and modification time (shutil.copy2).
StoreWriteFailed(f) ==
    IF f.exists THEN f ELSE [exists |-> TRUE, data |-> <<>>, mtime |-> f.mtime + 1]

InCache(c) == {p \in Paths : c[p].present}
\* p becomes the most recently used path.
Touch(order, p) == Append(SelectSeq(order, LAMBDA x : x # p), p)
Kept(order, c) == SelectSeq(order, LAMBDA x : c[x].present)

\* Eviction that takes the least recently used entries whatever their dirty
\* flag.  C16 must tell it from EvictFrom.
RECURSIVE EvictFromAny(_, _, _)
EvictFromAny(c, order, k) ==
    IF k > Len(order) \/ Cardinality(InCache(c)) <= max_cache_size - evict_slack
    THEN c
    ELSE EvictFromAny([c EXCEPT ![order[k]] = NoEntry], order, k + 1)
\* Eviction: from the least recently used entry on, drop the entries that
\* are not dirty until the table is under the limit by the slack margin.
RECURSIVE EvictFrom(_, _, _)
EvictFrom(c, order, k) ==
    IF k > Len(order) \/ Cardinality(InCache(c)) <= max_cache_size - evict_slack
    THEN c
    ELSE IF c[order[k]].dirty
         THEN EvictFrom(c, order, k + 1)
         ELSE EvictFrom([c EXCEPT ![order[k]] = NoEntry], order, k + 1)
Evicted(c, order) ==
    IF Cardinality(InCache(c)) > max_cache_size THEN EvictFrom(c, order, 1) ELSE c

\* The cache table with entry e put under p, p most recently used, and the
\* eviction run.
PutEntry(p, e) ==
    \E c \in {Evicted([cache EXCEPT ![p] = e], Touch(lru, p))} :
        /\ cache' = c
        /\ lru' = Kept(Touch(lru, p), c)

\* Validity that looks at the modification time only.  C19 must tell it from
\* EntryValid.
EntryValidIgnoresAge(e, f, time) ==
    /\ e.present
    /\ ~f.exists \/ f.mtime <= e.file_mtime
\* Validity of entry e of a path whose file is f: not older than the time to
\* live, and the file not modified since it was cached (not checked when the
\* file does not exist).
EntryValid(e, f, time) ==
    /\ e.present
    /\ time - e.cached_at <= cache_ttl
    /\ ~f.exists \/ f.mtime <= e.file_mtime

BeginOp(t) ==
    /\ tpc[t] = "idle"
    /\ ops[t] < MaxOps
    /\ ops' = [ops EXCEPT ![t] = ops[t] + 1]
    /\ UNCHANGED <<vars, mvars, bvars, rvars, lvars>>
Done(t, r) == last' = [last EXCEPT ![t] = r]

\* read_json(file_path, default=None)
read_json(t, p) ==
    LET e == cache[p] IN
    /\ BeginOp(t)
    /\ IF EntryValid(e, files[p], now)
       THEN /\ lru' = Touch(lru, p)
            /\ Done(t, [NoLast EXCEPT !.op = "read", !.path = p, !.value = e.value,
                                      !.hit = TRUE, !.age = now - e.cached_at])
            /\ UNCHANGED cache
       ELSE \E busy \in BOOLEAN :
            \E outcome \in {StoreRead(files[p], DefaultNone, busy)} :
                /\ IF outcome.kind = "return"
                   THEN PutEntry(p, Entry(outcome.v, now, files[p].mtime, FALSE))
                   ELSE UNCHANGED <<cache, lru>>
                /\ Done(t, [NoLast EXCEPT
                                !.op = "read", !.path = p,
                                !.value = IF outcome.kind = "return" THEN outcome.v
                                          ELSE DefaultNone,
                                !.success = (outcome.kind = "return"),
                                !.stale = e.present /\ now - e.cached_at > cache_ttl,
                                !.age = 0,
                                !.store_read = TRUE])
    /\ UNCHANGED <<files, pending_writes, now, tpc, drained, flush_results,
                   agreed, quiet>>

\* The entry of p after the store write behind write_json(immediate=True) has
\* failed, marked clean with the value that was not written.  C20 must tell it
\* from FailedEntry.
FailedEntryClean(p, value, fix) == Entry(value, now, files[p].mtime, FALSE)
\* The entry of p after the store write behind write_json(immediate=True) has
\* failed: left dirty with the value for a retry, or corrected to the file as
\* it was before the write.
FailedEntry(p, value, fix) ==
    IF fix = "dirty" THEN Entry(value, now, files[p].mtime, TRUE)
    ELSE IF files[p].exists /\ ~Blank(files[p].data) /\ ValidJson(Strip(files[p].data))
         THEN Entry(JsonLoads(Strip(files[p].data)).val, now, files[p].mtime, FALSE)
         ELSE NoEntry

\* The queue with the pending write of p, if any, superseded by w.
Enqueue(queue, w) == Append(SelectSeq(queue, LAMBDA x : x.path # w.path), w)

\* write_json(file_path, data, immediate)
write_json(t, p, value, immediate) ==
    /\ BeginOp(t)
    /\ quiet' = [u \in Threads |-> FALSE]
    /\ IF ~immediate
       THEN /\ PutEntry(p, Entry(value, now, files[p].mtime, TRUE))
            /\ pending_writes' = Enqueue(pending_writes,
                                         [path |-> p, value |-> value, time |-> now])
            /\ agreed' = [agreed EXCEPT ![p] = NoAgreed]
            /\ Done(t, [NoLast EXCEPT !.op = "write", !.path = p, !.value = value])
            /\ UNCHANGED files
       ELSE \E busy \in BOOLEAN :
            IF ~busy
            THEN \E f \in {StoreWritten(files[p], value)} :
                 /\ files' = [files EXCEPT ![p] = f]
                 /\ PutEntry(p, Entry(value, now, f.mtime, FALSE))
                 /\ agreed' = [agreed EXCEPT ![p] = [set |-> TRUE, value |-> value]]
                 /\ Done(t, [NoLast EXCEPT !.op = "write", !.path = p, !.value = value,
                                           !.store_writes = 1])
                 /\ UNCHANGED pending_writes
            ELSE \E fix \in {"dirty", "corrected"} :
                 /\ files' = [files EXCEPT ![p] = StoreWriteFailed(files[p])]
                 /\ PutEntry(p, FailedEntry(p, value, fix))
                 /\ agreed' = [agreed EXCEPT ![p] = NoAgreed]
                 /\ Done(t, [NoLast EXCEPT !.op = "write", !.path = p, !.value = value,
                                           !.success = FALSE, !.store_writes = 1])
                 /\ UNCHANGED pending_writes
    /\ UNCHANGED <<now, tpc, drained, flush_results>>

\* A drain that copies the queue and leaves it as it is.  C17 must tell it
\* from Drained.
DrainedNothing(queue) == queue
\* The queue after flush_writes has drained it.
Drained(queue) == <<>>

\* flush_writes(): the drain, under the lock of the table.  With nothing to
\* write the call returns its empty map at once.
FlushDrain(t) ==
    /\ BeginOp(t)
    /\ pending_writes' = Drained(pending_writes)
    /\ quiet' = [quiet EXCEPT ![t] = TRUE]
    /\ drained' = [drained EXCEPT ![t] = pending_writes]
    /\ flush_results' = [flush_results EXCEPT ![t] = <<>>]
    /\ IF pending_writes = <<>>
       THEN /\ Done(t, [NoLast EXCEPT !.op = "flush"])
            /\ UNCHANGED tpc
       ELSE /\ Done(t, [NoLast EXCEPT !.op = "flushing"])
            /\ tpc' = [tpc EXCEPT ![t] = "flushing"]
    /\ UNCHANGED <<files, cache, lru, now, agreed>>

\* The queue after one store write of a flush that empties it once the flush
\* is through.  C18 must tell it from AfterFlushWrite.
AfterFlushWriteCleared(queue, through) == IF through THEN <<>> ELSE queue
\* The queue after one store write of a flush.
AfterFlushWrite(queue, through) == queue

\* flush_writes(): the store write of the next drained entry; after the last
\* one the call returns its map.
FlushWrite(t) ==
    LET w == drained[t][Len(flush_results[t]) + 1]
        through == Len(flush_results[t]) + 1 = Len(drained[t])
    IN
    /\ tpc[t] = "flushing"
    /\ \E busy \in BOOLEAN :
       \E r \in {Append(flush_results[t],
                        [path |-> w.path, value |-> w.value, success |-> ~busy])} :
        /\ files' = [files EXCEPT ![w.path] = IF busy THEN StoreWriteFailed(@)
                                              ELSE StoreWritten(@, w.value)]
        /\ cache' = IF ~busy /\ cache[w.path].present
                    THEN [cache EXCEPT ![w.path].dirty = FALSE]
                    ELSE cache
        /\ flush_results' = [flush_results EXCEPT ![t] = r]
        /\ IF through
           THEN /\ tpc' = [tpc EXCEPT ![t] = "idle"]
                /\ Done(t, [NoLast EXCEPT !.op = "flush", !.results = r,
                                          !.store_writes = Len(r)])
           ELSE UNCHANGED <<tpc, last>>
    /\ pending_writes' = AfterFlushWrite(pending_writes, through)
    /\ agreed' = [agreed EXCEPT ![w.path] = NoAgreed]
    /\ UNCHANGED <<lru, now, drained, ops, quiet>>
    /\ UNCHANGED <<vars, mvars, bvars, rvars, lvars>>

\* The clock advances.
Tick ==
    /\ now < MaxTime
    /\ now' = now + 1
    /\ UNCHANGED <<files, cache, lru, pending_writes, tpc, drained, flush_results,
                   last, ops, agreed, quiet>>
    /\ UNCHANGED <<vars, mvars, bvars, rvars, lvars>>

CacheInit ==
    /\ InitProcs
    /\ MonitorIdle
    /\ RaceIdle
    /\ LoopIdle
    /\ BackoffIdle
    /\ InitFiles(0, <<>>)
    /\ CacheThreadsIdle
    /\ \/ files = [p \in Paths |-> NoDisk]
       \/ files = [p \in Paths |->
                      IF p = 1 THEN StoreWritten(NoDisk, V0) ELSE NoDisk]

CacheNext ==
    \/ \E t \in Threads, p \in Paths : read_json(t, p)
    \/ \E t \in Threads, p \in Paths, immediate \in BOOLEAN :
           write_json(t, p, CacheDoc(ops[t] + 1), immediate)
    \/ \E t \in Threads : FlushDrain(t)
    \/ \E t \in Threads : FlushWrite(t)
    \/ Tick

CacheSpec == CacheInit /\ [][CacheNext]_<<vars, cvars, mvars, bvars, rvars, lvars>>

(***************************************************************************)
(* The consistency monitor (smart-consistency-monitor.py).  One            *)
(* SmartConsistencyMonitor runs batch_validate calls over its monitored    *)
(* files; each selected file is validated by a worker of the batch's       *)
(* thread pool, while the clock runs and the files are changed by others.  *)
(* Times are in seconds.                                                   *)
(***************************************************************************)
RECURSIVE Pow2(_)
Pow2(n) == IF n <= 0 THEN 1 ELSE 2 * Pow2(n - 1)
Min(a, b) == IF a <= b THEN a ELSE b

\* future.result(timeout=5)
result_timeout == 5
\* How far one step of the clock goes.
ClockSteps == {10}
\* What a monitored file may hold: one of two JSON objects, the JSON value
\* null, text that is not JSON, and nothing.
NullText == <<"n", "u", "l", "l">>
MonTexts == {JsonDump(V0), JsonDump(CounterDoc(1)), NullText, InvalidText, <<>>}

\* _get_file_signature(file_path): (st_mtime, st_size), (0, 0) if stat fails.
Signature(file, denied) ==
    IF denied \/ ~file.exists THEN <<0, 0>> ELSE <<file.mtime, Len(file.data)>>

\* `mtime == state.last_mtime and size == state.last_size` for a known file.
Unchanged(state, sig) ==
    state.known /\ sig[1] = state.last_mtime /\ sig[2] = state.last_size

\* A check_interval whose exponent is not held at four: it doubles up to the
\* maximum.  C21 must tell it from CheckInterval.
CheckIntervalUncapped(state, stable) ==
    IF stable
    THEN LET k == state.check_count - stable_threshold IN
         IF k >= 0
         THEN [num |-> Min(max_check_interval, min_check_interval * Pow2(k)),
               den |-> 1]
         ELSE [num |-> min_check_interval, den |-> Pow2(0 - k)]
    ELSE [num |-> min_check_interval, den |-> 1]
\* check_interval of _should_check_file, as the fraction num / den: 2 ** k
\* with k < 0 is a fraction in Python.
CheckInterval(state, stable) ==
    IF stable
    THEN LET k == Min(state.check_count - stable_threshold, 4) IN
         IF k >= 0
         THEN [num |-> Min(max_check_interval, min_check_interval * Pow2(k)),
               den |-> 1]
         ELSE [num |-> min_check_interval, den |-> Pow2(0 - k)]
    ELSE [num |-> min_check_interval, den |-> 1]

\* A _should_check_file that finds every file due.  C26 must tell it from
\* should_check_file.
should_check_always(f) == TRUE
\* _should_check_file(file_path)
should_check_file(f) ==
    IF ~file_states[f].known THEN TRUE
    ELSE LET check_interval == CheckInterval(file_states[f], f \in stable_files) IN
         (mon_now - file_states[f].last_check) * check_interval.den
             >= check_interval.num

\* _get_monitored_files(): the JSON files found under the workspace.
MonitoredFiles == SelectSeq([f \in MonFiles |-> f], LAMBDA f : mon_files[f].exists)

\* self.cache.read_json(file_key, None) raising: the cache manager's read
\* answers with the value or with the default, whatever the file holds.
CacheReadRaises(file, busy) == FALSE

\* The content validation of _validate_json_file: validation_status, and
\* whether stats['errors'] is counted.  "error" stands for an exception that
\* leaves the try block: Path.exists() of safe_json_read raising
\* PermissionError.
ContentValidation(file, denied, busy) ==
    IF use_cache
    THEN [status |-> IF CacheReadRaises(file, busy) THEN "invalid" ELSE "valid",
          errors |-> 0]
    ELSE IF denied THEN [status |-> "error", errors |-> 1]
    ELSE LET outcome == StoreRead(file, DefaultNone, busy) IN
         IF outcome.kind = "raise" THEN [status |-> "invalid", errors |-> 1]
         ELSE IF outcome.v.t # "null" THEN [status |-> "valid", errors |-> 0]
         ELSE [status |-> "invalid", errors |-> 0]

\* A check of an unchanged file that takes a file become stable out of the
\* dirty set and leaves its is_dirty flag.  C36 must tell it from CleanCheck.
CleanCheckKeepsFlag(f) ==
    LET count == file_states[f].check_count + 1
        stable == count >= stable_threshold
    IN
    /\ file_states' = [file_states EXCEPT
           ![f] = [@ EXCEPT !.last_check = mon_now, !.check_count = count]]
    /\ stable_files' = IF stable THEN stable_files \cup {f} ELSE stable_files
    /\ dirty_files' = IF stable THEN dirty_files \ {f} ELSE dirty_files
    /\ future_result' = [future_result EXCEPT
           ![f] = [path |-> f, status |-> "unchanged",
                   stable |-> f \in stable_files']]
    /\ UNCHANGED <<stats, content_reads>>
\* A check of an unchanged file that counts as a content check in
\* stats['total_checks'].  C29 must tell it from CleanCheck.
CleanCheckCounted(f) ==
    LET count == file_states[f].check_count + 1
        stable == count >= stable_threshold
    IN
    /\ file_states' = [file_states EXCEPT
           ![f] = [@ EXCEPT !.last_check = mon_now, !.check_count = count,
                            !.is_dirty = IF stable THEN FALSE ELSE @]]
    /\ stable_files' = IF stable THEN stable_files \cup {f} ELSE stable_files
    /\ dirty_files' = IF stable THEN dirty_files \ {f} ELSE dirty_files
    /\ future_result' = [future_result EXCEPT
           ![f] = [path |-> f, status |-> "unchanged",
                   stable |-> f \in stable_files']]
    /\ stats' = [stats EXCEPT !.total_checks = @ + 1]
    /\ UNCHANGED content_reads
\* _validate_json_file, the file unchanged since its last check.
CleanCheck(f) ==
    LET count == file_states[f].check_count + 1
        stable == count >= stable_threshold
    IN
    /\ file_states' = [file_states EXCEPT
           ![f] = [@ EXCEPT !.last_check = mon_now, !.check_count = count,
                            !.is_dirty = IF stable THEN FALSE ELSE @]]
    /\ stable_files' = IF stable THEN stable_files \cup {f} ELSE stable_files
    /\ dirty_files' = IF stable THEN dirty_files \ {f} ELSE dirty_files
    /\ future_result' = [future_result EXCEPT
           ![f] = [path |-> f, status |-> "unchanged",
                   stable |-> f \in stable_files']]
    /\ UNCHANGED <<stats, content_reads>>

\* A content check that leaves an invalid file in the stable set.  C33 must
\* tell it from ContentCheck.
ContentCheckKeepsStable(f, sig, denied, busy) ==
    LET validation == ContentValidation(mon_files[f], denied, busy)
        validation_status == validation.status
        invalid == validation_status = "invalid"
    IN
    /\ content_reads' = [content_reads EXCEPT ![f] = @ + 1]
    /\ future_result' = [future_result EXCEPT
           ![f] = [path |-> f, status |-> validation_status, stable |-> FALSE]]
    /\ IF validation_status = "error"
       THEN /\ stats' = [stats EXCEPT !.total_checks = @ + 1, !.errors = @ + 1]
            /\ UNCHANGED <<file_states, dirty_files, stable_files>>
       ELSE /\ file_states' = [file_states EXCEPT
                   ![f] = FileState(mon_now, sig[1], sig[2], invalid, 1,
                                    IF invalid THEN 1 ELSE 0)]
            /\ dirty_files' = IF invalid THEN dirty_files \cup {f}
                              ELSE dirty_files \ {f}
            /\ stable_files' = stable_files
            /\ stats' = [stats EXCEPT
                   !.total_checks = @ + 1,
                   !.errors = @ + validation.errors,
                   !.dirty_detections = IF invalid THEN @ + 1 ELSE @]
\* _validate_json_file, the file new or changed.
ContentCheck(f, sig, denied, busy) ==
    LET validation == ContentValidation(mon_files[f], denied, busy)
        validation_status == validation.status
        invalid == validation_status = "invalid"
    IN
    /\ content_reads' = [content_reads EXCEPT ![f] = @ + 1]
    /\ future_result' = [future_result EXCEPT
           ![f] = [path |-> f, status |-> validation_status, stable |-> FALSE]]
    /\ IF validation_status = "error"
       THEN /\ stats' = [stats EXCEPT !.total_checks = @ + 1, !.errors = @ + 1]
            /\ UNCHANGED <<file_states, dirty_files, stable_files>>
       ELSE /\ file_states' = [file_states EXCEPT
                   ![f] = FileState(mon_now, sig[1], sig[2], invalid, 1,
                                    IF invalid THEN 1 ELSE 0)]
            /\ dirty_files' = IF invalid THEN dirty_files \cup {f}
                              ELSE dirty_files \ {f}
            /\ stable_files' = IF invalid THEN stable_files \ {f} ELSE stable_files
            /\ stats' = [stats EXCEPT
                   !.total_checks = @ + 1,
                   !.errors = @ + validation.errors,
                   !.dirty_detections = IF invalid THEN @ + 1 ELSE @]

\* A worker of the pool runs _validate_json_file(file_path).
Validate(f) ==
    /\ bpc \in {"collect", "shutdown"}
    /\ futures[f] = "pending"
    /\ \E denied, busy \in BOOLEAN :
           LET sig == Signature(mon_files[f], denied) IN
           /\ nfaults' = IF denied \/ busy THEN nfaults + 1 ELSE nfaults
           /\ nfaults' <= MaxFaults
           /\ ~(denied /\ busy)
           /\ IF Unchanged(file_states[f], sig)
              THEN CleanCheck(f)
              ELSE ContentCheck(f, sig, denied, busy)
    /\ futures' = [futures EXCEPT ![f] = "done"]
    /\ UNCHANGED <<mon_files, mon_now, use_cache, bpc, force_all, files_to_check,
                   results, summary, nchecks, nmods>>
    /\ UNCHANGED <<vars, cvars, bvars, rvars, lvars>>

\* A batch_validate that counts a batch before it looks whether any file is
\* selected.  C37 must tell it from BatchStart.
BatchStartCountsEmpty(fa) ==
    /\ bpc = "idle"
    /\ force_all' = fa
    /\ LET selected == IF fa THEN MonitoredFiles
                       ELSE SelectSeq(MonitoredFiles, should_check_file)
       IN
       IF selected = <<>>
       THEN /\ summary' = [NoSummary EXCEPT
                   !.status = "no_files_to_check",
                   !.dirty = Cardinality(dirty_files),
                   !.stable = Cardinality(stable_files)]
            /\ stats' = [stats EXCEPT !.batch_validations = @ + 1]
            /\ UNCHANGED <<bpc, files_to_check, futures, nchecks>>
       ELSE /\ nchecks + Len(selected) <= MaxChecks
            /\ nchecks' = nchecks + Len(selected)
            /\ stats' = [stats EXCEPT !.batch_validations = @ + 1]
            /\ files_to_check' = selected
            /\ futures' = [f \in MonFiles |->
                   IF \E i \in DOMAIN selected : selected[i] = f
                   THEN "pending" ELSE "none"]
            /\ bpc' = "collect"
            /\ UNCHANGED summary
    /\ results' = <<>>
    /\ UNCHANGED <<mon_files, mon_now, use_cache, file_states, dirty_files,
                   stable_files, future_result, content_reads, nmods, nfaults>>
    /\ UNCHANGED <<vars, cvars, bvars, rvars, lvars>>
\* batch_validate(force_all) up to the submission of the validations, or to
\* its early return.
BatchStart(fa) ==
    /\ bpc = "idle"
    /\ force_all' = fa
    /\ LET selected == IF fa THEN MonitoredFiles
                       ELSE SelectSeq(MonitoredFiles, should_check_file)
       IN
       IF selected = <<>>
       THEN /\ summary' = [NoSummary EXCEPT
                   !.status = "no_files_to_check",
                   !.dirty = Cardinality(dirty_files),
                   !.stable = Cardinality(stable_files)]
            /\ UNCHANGED <<stats, bpc, files_to_check, futures, nchecks>>
       ELSE /\ nchecks + Len(selected) <= MaxChecks
            /\ nchecks' = nchecks + Len(selected)
            /\ stats' = [stats EXCEPT !.batch_validations = @ + 1]
            /\ files_to_check' = selected
            /\ futures' = [f \in MonFiles |->
                   IF \E i \in DOMAIN selected : selected[i] = f
                   THEN "pending" ELSE "none"]
            /\ bpc' = "collect"
            /\ UNCHANGED summary
    /\ results' = <<>>
    /\ UNCHANGED <<mon_files, mon_now, use_cache, file_states, dirty_files,
                   stable_files, future_result, content_reads, nmods, nfaults>>
    /\ UNCHANGED <<vars, cvars, bvars, rvars, lvars>>

\* The next future of the loop `for future in future_to_file`.
NextFuture == files_to_check[Len(results) + 1]

\* future.result(timeout=5) returns what the validation returned.
CollectResult ==
    /\ bpc = "collect"
    /\ Len(results) < Len(files_to_check)
    /\ futures[NextFuture] = "done"
    /\ results' = Append(results, future_result[NextFuture])
    /\ UNCHANGED <<mon_files, mon_now, use_cache, file_states, dirty_files,
                   stable_files, stats, bpc, force_all, files_to_check, futures,
                   future_result, summary, content_reads, nchecks, nmods, nfaults>>
    /\ UNCHANGED <<vars, cvars, bvars, rvars, lvars>>

\* future.result(timeout=5) raises TimeoutError: five seconds have passed and
\* the validation has not returned.
CollectTimeout ==
    /\ bpc = "collect"
    /\ Len(results) < Len(files_to_check)
    /\ futures[NextFuture] = "pending"
    /\ mon_now + result_timeout <= MaxNow
    /\ mon_now' = mon_now + result_timeout
    /\ results' = Append(results, [path |-> NextFuture, status |-> "timeout",
                                   stable |-> FALSE])
    /\ UNCHANGED <<mon_files, use_cache, file_states, dirty_files,
                   stable_files, stats, bpc, force_all, files_to_check, futures,
                   future_result, summary, content_reads, nchecks, nmods, nfaults>>
    /\ UNCHANGED <<vars, cvars, bvars, rvars, lvars>>

\* The loop over the futures is over: the `with ThreadPoolExecutor` block is
\* left, which is executor.shutdown(wait=True).
CollectDone ==
    /\ bpc = "collect"
    /\ Len(results) = Len(files_to_check)
    /\ bpc' = "shutdown"
    /\ UNCHANGED <<mon_files, mon_now, use_cache, file_states, dirty_files,
                   stable_files, stats, force_all, files_to_check, futures,
                   future_result, results, summary, content_reads, nchecks,
                   nmods, nfaults>>
    /\ UNCHANGED <<vars, cvars, bvars, rvars, lvars>>

\* `sum(1 for r in results if r['status'] in statuses)`
CountStatus(rs, statuses) ==
    Cardinality({i \in DOMAIN rs : rs[i].status \in statuses})

\* A summary that counts the timeouts only among its errors.  C24 must tell
\* it from Summary.
SummaryCountsTimeoutsOnly(rs) ==
    [status |-> "checked",
     checked |-> Len(rs),
     valid |-> CountStatus(rs, {"valid"}),
     invalid |-> CountStatus(rs, {"invalid"}),
     errors |-> CountStatus(rs, {"timeout"}),
     dirty |-> Cardinality(dirty_files),
     stable |-> Cardinality(stable_files),
     results |-> rs]
\* The summary batch_validate returns.
Summary(rs) ==
    [status |-> "checked",
     checked |-> Len(rs),
     valid |-> CountStatus(rs, {"valid"}),
     invalid |-> CountStatus(rs, {"invalid"}),
     errors |-> CountStatus(rs, {"error", "timeout"}),
     dirty |-> Cardinality(dirty_files),
     stable |-> Cardinality(stable_files),
     results |-> rs]

\* shutdown(wait=True) returns once every submitted validation has finished;
\* batch_validate then returns its summary.
BatchReturn ==
    /\ bpc = "shutdown"
    /\ \A f \in MonFiles : futures[f] # "pending"
    /\ summary' = Summary(results)
    /\ bpc' = "idle"
    /\ futures' = [f \in MonFiles |-> "none"]
    /\ future_result' = [f \in MonFiles |-> NoValidation]
    /\ files_to_check' = <<>>
    /\ results' = <<>>
    /\ UNCHANGED <<mon_files, mon_now, use_cache, file_states, dirty_files,
                   stable_files, stats, force_all, content_reads, nchecks, nmods, nfaults>>
    /\ UNCHANGED <<vars, cvars, bvars, rvars, lvars>>

\* Time passes between two batches: a batch that waits for no validation is
\* over within a step of the clock.
Advance(d) ==
    /\ bpc = "idle"
    /\ mon_now + d <= MaxNow
    /\ mon_now' = mon_now + d
    /\ UNCHANGED <<mon_files, use_cache, file_states, dirty_files, stable_files,
                   stats, bpc, force_all, files_to_check, futures, future_result,
                   results, summary, content_reads, nchecks, nmods, nfaults>>
    /\ UNCHANGED <<vars, cvars, bvars, rvars, lvars>>

\* Somebody rewrites a monitored file.
Modify(f, text) ==
    /\ nmods < MaxMods
    /\ nmods' = nmods + 1
    /\ mon_files[f].exists
    /\ text # mon_files[f].data
    /\ mon_files' = [mon_files EXCEPT
           ![f] = [exists |-> TRUE, data |-> text, mtime |-> @.mtime + 1]]
    /\ UNCHANGED <<mon_now, use_cache, file_states, dirty_files, stable_files,
                   stats, bpc, force_all, files_to_check, futures, future_result,
                   results, summary, content_reads, nchecks, nfaults>>
    /\ UNCHANGED <<vars, cvars, bvars, rvars, lvars>>

\* SmartConsistencyMonitor.__init__, with or without the cache manager.
MonitorFresh ==
    /\ InitProcs
    /\ InitFiles(0, <<>>)
    /\ CacheIdle
    /\ BackoffIdle
    /\ RaceIdle
    /\ LoopIdle
    /\ use_cache \in BOOLEAN
    /\ mon_now = 0
    /\ file_states = [f \in MonFiles |-> NoState]
    /\ dirty_files = {}
    /\ stable_files = {}
    /\ stats = [total_checks |-> 0, dirty_detections |-> 0, batch_validations |-> 0,
                errors |-> 0]
    /\ bpc = "idle"
    /\ force_all = FALSE
    /\ files_to_check = <<>>
    /\ futures = [f \in MonFiles |-> "none"]
    /\ future_result = [f \in MonFiles |-> NoValidation]
    /\ results = <<>>
    /\ summary = NoSummary
    /\ content_reads = [f \in MonFiles |-> 0]
    /\ nchecks = 0
    /\ nmods = 0
    /\ nfaults = 0

\* A monitor over one file, followed through many checks while the clock
\* runs and the file is rewritten.
MonitorInit ==
    /\ MonitorFresh
    /\ \E text \in MonTexts :
           mon_files = [f \in MonFiles |->
               IF f = 1 THEN [exists |-> TRUE, data |-> text, mtime |-> 1]
               ELSE NoDisk]

MonitorNext ==
    \/ \E fa \in BOOLEAN : BatchStart(fa)
    \/ \E f \in MonFiles : Validate(f)
    \/ CollectResult
    \/ CollectTimeout
    \/ CollectDone
    \/ BatchReturn
    \/ \E d \in ClockSteps : Advance(d)
    \/ \E f \in MonFiles, text \in MonTexts : Modify(f, text)

MonitorSpec == MonitorInit /\ [][MonitorNext]_<<vars, cvars, mvars, bvars, rvars, lvars>>

\* A monitor over all its files at once: the batches and their thread pool.
PoolInit ==
    /\ MonitorFresh
    /\ \E text \in MonTexts :
           mon_files = [f \in MonFiles |->
               [exists |-> TRUE, mtime |-> 1,
                data |-> IF f = 1 THEN text ELSE JsonDump(V0)]]

PoolNext ==
    \/ \E fa \in BOOLEAN : BatchStart(fa)
    \/ \E f \in MonFiles : Validate(f)
    \/ CollectResult
    \/ CollectTimeout
    \/ CollectDone
    \/ BatchReturn

PoolSpec == PoolInit /\ [][PoolNext]_<<vars, cvars, mvars, bvars, rvars, lvars>>

(***************************************************************************)
(* The workers of one batch, statement by statement where they touch the   *)
(* statistics all of them share: `self.stats[k] += 1` reads the counter,   *)
(* adds one and stores the sum, and no lock is taken around it.            *)
(***************************************************************************)
RaceTexts == {JsonDump(V0), InvalidText}

\* The worker of f finds the file unchanged: the branch touches the state of
\* its own path only.
WorkerUnchanged(f) ==
    /\ bpc \in {"collect", "shutdown"}
    /\ futures[f] = "pending"
    /\ wpc[f] = "idle"
    /\ Unchanged(file_states[f], Signature(mon_files[f], FALSE))
    /\ CleanCheck(f)
    /\ futures' = [futures EXCEPT ![f] = "done"]
    /\ UNCHANGED <<mon_files, mon_now, use_cache, bpc, force_all, files_to_check,
                   results, summary, nchecks, nmods, nfaults>>
    /\ UNCHANGED <<vars, cvars, bvars, rvars, lvars>>

\* `self.stats['total_checks'] += 1`, its read of the counter.
WorkerLoad(f) ==
    /\ bpc \in {"collect", "shutdown"}
    /\ futures[f] = "pending"
    /\ wpc[f] = "idle"
    /\ ~Unchanged(file_states[f], Signature(mon_files[f], FALSE))
    /\ reg' = [reg EXCEPT ![f] = stats.total_checks]
    /\ wpc' = [wpc EXCEPT ![f] = "loaded"]
    /\ UNCHANGED <<mvars, vars, cvars, bvars, lvars>>

\* `self.stats['total_checks'] += 1`, its store; then the validation of the
\* content, the new FileState and the dirty tracking of the path.  A valid
\* file ends the worker; for an invalid one the worker has read
\* stats['dirty_detections'].
WorkerStore(f) ==
    LET sig == Signature(mon_files[f], FALSE)
        validation == ContentValidation(mon_files[f], FALSE, FALSE)
        invalid == validation.status = "invalid"
    IN
    /\ wpc[f] = "loaded"
    /\ content_reads' = [content_reads EXCEPT ![f] = @ + 1]
    /\ stats' = [stats EXCEPT !.total_checks = reg[f] + 1,
                              !.errors = @ + validation.errors]
    /\ file_states' = [file_states EXCEPT
           ![f] = FileState(mon_now, sig[1], sig[2], invalid, 1,
                            IF invalid THEN 1 ELSE 0)]
    /\ dirty_files' = IF invalid THEN dirty_files \cup {f} ELSE dirty_files \ {f}
    /\ stable_files' = IF invalid THEN stable_files \ {f} ELSE stable_files
    /\ future_result' = [future_result EXCEPT
           ![f] = [path |-> f, status |-> validation.status, stable |-> FALSE]]
    /\ IF invalid
       THEN /\ reg' = [reg EXCEPT ![f] = stats.dirty_detections]
            /\ wpc' = [wpc EXCEPT ![f] = "counting"]
            /\ UNCHANGED futures
       ELSE /\ reg' = [reg EXCEPT ![f] = 0]
            /\ wpc' = [wpc EXCEPT ![f] = "idle"]
            /\ futures' = [futures EXCEPT ![f] = "done"]
    /\ UNCHANGED <<mon_files, mon_now, use_cache, bpc, force_all, files_to_check,
                   results, summary, nchecks, nmods, nfaults>>
    /\ UNCHANGED <<vars, cvars, bvars, lvars>>

\* `self.stats['dirty_detections'] += 1`, its store; the worker returns.
WorkerCount(f) ==
    /\ wpc[f] = "counting"
    /\ stats' = [stats EXCEPT !.dirty_detections = reg[f] + 1]
    /\ reg' = [reg EXCEPT ![f] = 0]
    /\ wpc' = [wpc EXCEPT ![f] = "idle"]
    /\ futures' = [futures EXCEPT ![f] = "done"]
    /\ UNCHANGED <<mon_files, mon_now, use_cache, file_states, dirty_files,
                   stable_files, bpc, force_all, files_to_check, future_result,
                   results, summary, content_reads, nchecks, nmods, nfaults>>
    /\ UNCHANGED <<vars, cvars, bvars, lvars>>

\* A monitor over files that all exist, valid or not.
RaceInit ==
    /\ MonitorFresh
    /\ \E texts \in [MonFiles -> RaceTexts] :
           mon_files = [f \in MonFiles |->
               [exists |-> TRUE, mtime |-> 1, data |-> texts[f]]]

RaceNext ==
    \/ \E fa \in BOOLEAN : BatchStart(fa)
    \/ \E f \in MonFiles : WorkerUnchanged(f)
    \/ \E f \in MonFiles : WorkerLoad(f)
    \/ \E f \in MonFiles : WorkerStore(f)
    \/ \E f \in MonFiles : WorkerCount(f)
    \/ CollectResult
    \/ CollectTimeout
    \/ CollectDone
    \/ BatchReturn

RaceSpec == RaceInit /\ [][RaceNext]_<<vars, cvars, mvars, bvars, rvars, lvars>>

(***************************************************************************)
(* The background monitoring: start_monitoring and stop_monitoring called  *)
(* by the program's main thread, and the threads that run _monitor_loop.   *)
(* The workspace holds no JSON file, so a batch of the loop is the early   *)
(* return of batch_validate.                                               *)
(***************************************************************************)
\* The thread `threading.Thread(...)` creates next.
NewThread == CHOOSE t \in LoopThreads :
                 lpc[t] = "unborn" /\ \A u \in 1..(t - 1) : lpc[u] # "unborn"

\* start_monitoring(): nothing when self.running is set.
StartMonitoring ==
    /\ main_pc = "idle"
    /\ IF running
       THEN UNCHANGED <<running, monitor_thread, lpc>>
       ELSE /\ \E t \in LoopThreads : lpc[t] = "unborn"
            /\ running' = TRUE
            /\ monitor_thread' = NewThread
            /\ lpc' = [lpc EXCEPT ![NewThread] = "test"]
    /\ UNCHANGED <<main_pc, mvars, vars, cvars, bvars, rvars>>

\* stop_monitoring() up to its join.
StopMonitoring ==
    /\ main_pc = "idle"
    /\ running' = FALSE
    /\ main_pc' = IF monitor_thread # 0 THEN "join" ELSE "idle"
    /\ UNCHANGED <<monitor_thread, lpc, mvars, vars, cvars, bvars, rvars>>

\* self.monitor_thread.join(timeout=5) returns because the thread has ended.
JoinReturn ==
    /\ main_pc = "join"
    /\ lpc[monitor_thread] = "exited"
    /\ main_pc' = "idle"
    /\ UNCHANGED <<running, monitor_thread, lpc, mvars, vars, cvars, bvars, rvars>>

\* self.monitor_thread.join(timeout=5) returns after its five seconds: the
\* thread is in its sleep, which lasts check_interval seconds or half of
\* them (60 by default).
JoinTimeout ==
    /\ main_pc = "join"
    /\ lpc[monitor_thread] = "sleep"
    /\ main_pc' = "idle"
    /\ UNCHANGED <<running, monitor_thread, lpc, mvars, vars, cvars, bvars, rvars>>

\* `while self.running:`
LoopTest(t) ==
    /\ lpc[t] = "test"
    /\ lpc' = [lpc EXCEPT ![t] = IF running THEN "batch" ELSE "exited"]
    /\ UNCHANGED <<running, monitor_thread, main_pc, mvars, vars, cvars, bvars, rvars>>

\* `result = self.batch_validate()` of the loop: no file is due.
LoopBatch(t) ==
    /\ lpc[t] = "batch"
    /\ bpc = "idle"
    /\ SelectSeq(MonitoredFiles, should_check_file) = <<>>
    /\ summary' = [NoSummary EXCEPT
           !.status = "no_files_to_check",
           !.dirty = Cardinality(dirty_files),
           !.stable = Cardinality(stable_files)]
    /\ force_all' = FALSE
    /\ results' = <<>>
    /\ lpc' = [lpc EXCEPT ![t] = "sleep"]
    /\ UNCHANGED <<mon_files, mon_now, use_cache, file_states, dirty_files,
                   stable_files, stats, bpc, files_to_check, futures,
                   future_result, content_reads, nchecks, nmods, nfaults>>
    /\ UNCHANGED <<running, monitor_thread, main_pc, vars, cvars, bvars, rvars>>

\* time.sleep(sleep_time) is over.
LoopSleep(t) ==
    /\ lpc[t] = "sleep"
    /\ lpc' = [lpc EXCEPT ![t] = "test"]
    /\ UNCHANGED <<running, monitor_thread, main_pc, mvars, vars, cvars, bvars, rvars>>

\* The `daemon` command: a fresh monitor over a workspace without JSON files.
LoopInit ==
    /\ InitProcs
    /\ InitFiles(0, <<>>)
    /\ CacheIdle
    /\ MonitorIdle
    /\ RaceIdle
    /\ LoopIdle
    /\ BackoffIdle

LoopNext ==
    \/ StartMonitoring
    \/ StopMonitoring
    \/ JoinReturn
    \/ JoinTimeout
    \/ \E t \in LoopThreads : LoopTest(t)
    \/ \E t \in LoopThreads : LoopBatch(t)
    \/ \E t \in LoopThreads : LoopSleep(t)

LoopSpec == LoopInit /\ [][LoopNext]_<<vars, cvars, mvars, bvars, rvars, lvars>>

(***************************************************************************)
(* Vocabulary of the properties.                                           *)
(***************************************************************************)
LastCall(q) == log[q][Len(log[q])]
\* Caller q's last call was a `name` call and has returned or raised.
Ended(q, name) == pc[q] = "idle" /\ log[q] # <<>> /\ LastCall(q).name = name
\* Every call caller q has made so far is one of `names`.
OnlyCalls(q, names) == \A k \in DOMAIN log[q] : log[q][k].name \in names
\* The documents passed to the write calls made so far.
Written ==
    UNION {{log[q][k].data : k \in {j \in DOMAIN log[q] : log[q][j].name = "write"}} :
           q \in Procs}
\* What safe_json_read(file_path, default) returns or raises when it runs now
\* with no other call in progress.
ReadNow(default) ==
    IF target = 0 THEN Returns(default)
    ELSE ReadOutcome(Strip(idata[target]), default)
\* file_path was initially absent or a valid JSON document.
InitiallySound == ~initial.exists \/ ValidJson(initial.data)

(***************************************************************************)
(* The properties.                                                         *)
(***************************************************************************)
\* C1: when file_path starts absent or valid, in every reachable state of
\* every interleaving of read, write and update calls file_path is absent or
\* holds one complete valid JSON document, never an empty or truncated one.
C1_FileAbsentOrValidJson ==
    InitiallySound => (target = 0 \/ ValidJson(idata[target]))

\* C2: once every caller has made write calls only and all of them have
\* returned or raised, a read of file_path returns one of the documents
\* written: not the default, not an error, nothing else.
C2_ReadAfterWritesReturnsOneWritten ==
    (\A q \in Procs : Ended(q, "write") /\ OnlyCalls(q, {"write"}))
    => /\ ReadNow(DefaultNone).kind = "return"
       /\ ReadNow(DefaultNone).v \in Written

\* C3: when file_path initially holds the valid document V0 and the other
\* callers only write, a finished read has not returned the default and has
\* not failed with an invalid-format error, and a value it returned is V0 or
\* one of the documents written.
C3_ReadNeverSeesHalfWrite ==
    (initial.exists /\ initial.data = JsonDump(V0))
    => \A q \in Procs :
         (/\ Ended(q, "read")
          /\ OnlyCalls(q, {"read", "write"})
          /\ \A r \in Procs \ {q} : OnlyCalls(r, {"write"}))
         => /\ result[q] # Returns(DefaultNone)
            /\ result[q].err # "InvalidFormat"
            /\ result[q].kind = "return" => result[q].v \in {V0} \cup Written

\* C4: round trip.  When a caller alone on the path has made a write call
\* followed by a read call, the read returns a value equal to the document
\* written, whatever the file held before.
C4_WriteThenReadRoundTrip ==
    LET n == Len(log[1]) IN
    (/\ n >= 2
     /\ pc[1] = "idle"
     /\ log[1][n - 1].name = "write"
     /\ log[1][n].name = "read")
    => result[1] = Returns(log[1][n - 1].data)
\* A document with a quote, a backslash and a newline in a string has made
\* the round trip over a file that held invalid text.
C4_Witness ==
    LET doc == JStr(<<"a", Quote, "b", Backslash, "\n", "c">>) IN
    /\ Len(log[1]) = 2
    /\ pc[1] = "idle"
    /\ log[1][1] = [name |-> "write", data |-> doc]
    /\ log[1][2].name = "read"
    /\ result[1] = Returns(doc)
    /\ initial.data = InvalidText

\* C5: the lock of the path is exclusive: no two callers hold it at the same
\* moment, also right after one of them has renamed its temporary file onto
\* the path.
C5_LockExclusive ==
    \A q, r \in Procs : q # r => ~(HoldsLock(q) /\ HoldsLock(r))

\* C6: a caller whose call has returned or raised (or that has made none)
\* holds no lock and no open handle.
C6_NothingHeldAfterCall ==
    \A q \in Procs :
        pc[q] = "idle" => file_handle[q] = 0 /\ ~locked[q] /\ copy_fd[q] = 0
\* One call has ended on a lock timeout and another has returned.
C6_Witness ==
    \E q, r \in Procs :
        /\ q # r
        /\ pc[q] = "idle" /\ pc[r] = "idle"
        /\ result[q].kind = "raise" /\ RootCause(result[q]) = "LockTimeout"
        /\ result[r].kind = "return"

\* C7: lock acquisition makes at most MaxRetries attempts, a call whose
\* attempts have all failed ends with a lock-timeout failure, and every call
\* of a caller that keeps running returns or raises, however long the other
\* callers hold the lock.
C7_LockAcquisitionBounded ==
    /\ [](\A q \in Procs :
            /\ retries[q] <= MaxRetries
            /\ pc[q] = "flock" => retries[q] < MaxRetries)
    /\ (retries[1] = MaxRetries)
         ~> (/\ pc[1] = "idle"
             /\ result[1].kind = "raise"
             /\ RootCause(result[1]) = "LockTimeout")
    /\ (pc[1] # "idle") ~> (pc[1] = "idle")
\* Caller 1's call has ended on a lock timeout after MaxRetries failed
\* attempts while another caller still holds the lock.
C7_Witness ==
    /\ pc[1] = "idle"
    /\ retries[1] = MaxRetries
    /\ result[1].kind = "raise"
    /\ RootCause(result[1]) = "LockTimeout"
    /\ \E r \in Procs \ {1} : HoldsLock(r)

C10_FailedWriteRestoresPriorContent ==
    [][\A q \in Procs :
         (/\ pc[q] # "idle" /\ pc'[q] = "idle"
          /\ call[q].name = "write" /\ call[q].backup
          /\ result'[q].kind = "raise"
          /\ snap[q].exists /\ target' = snap[q].ino)
         => idata'[target'] = snap[q].data]_vars

ReadAtStart(q, default) ==
    IF ~snap[q].exists THEN Returns(default)
    ELSE ReadOutcome(Strip(snap[q].data), default)
\* C12: when the caller alone on the path has finished an update whose read
\* returned x and whose update_func accepted x, the update has returned
\* update_func(x) and a read of file_path returns that same value.
C12_UpdateReturnsTransformOfRead ==
    (/\ Ended(1, "update")
     /\ ReadAtStart(1, call[1].default).kind = "return"
     /\ increment_func(ReadAtStart(1, call[1].default).v, 1).ok)
    => LET fx == increment_func(ReadAtStart(1, call[1].default).v, 1).val IN
       /\ result[1] = Returns(fx)
       /\ ReadNow(DefaultNone) = Returns(fx)
\* An update of a file that held {"counter": 9}, written by the call before
\* it, has returned counter 10.
C12_Witness ==
    /\ Len(log[1]) = 2
    /\ log[1][1] = [name |-> "write", data |-> CounterDoc(9)]
    /\ Ended(1, "update")
    /\ result[1].kind = "return"
    /\ DictGet(result[1].v.members, CounterKey, JNull) = JInt(10)

\* The counter member of the document safe_json_read(file_path) returns now,
\* -1 when it returns no document with an integer counter.
CounterNow ==
    LET r == ReadNow(DefaultNone) IN
    IF r.kind = "return" /\ r.v.t = "obj"
       /\ DictGet(r.v.members, CounterKey, JNull).t = "int"
    THEN DictGet(r.v.members, CounterKey, JNull).n
    ELSE 0 - 1
\* Every caller has made update calls only, at least one, and all have ended.
UpdatesDone ==
    \A q \in Procs : Ended(q, "update") /\ OnlyCalls(q, {"update"})
\* The number of update calls made.
UpdateCalls == NumProcs * MaxCalls

\* C13: from a file holding counter 0, when every caller has run its update
\* calls concurrently and all have ended, file_path holds valid JSON and its
\* counter is between 1 and the number of calls.  (The claim adds that no
\* call has raised; its part on the final file is what is stated here.)
C13_ConcurrentUpdatesBounded ==
    (initial.exists /\ initial.data = JsonDump(V0) /\ UpdatesDone)
    => /\ target # 0 /\ ValidJson(idata[target])
       /\ CounterNow >= 1 /\ CounterNow <= UpdateCalls

\* C14: from a file holding counter 0, when every caller has run its update
\* calls concurrently and all have returned, the counter of file_path equals
\* the number of calls: no increment is lost.
C14_NoIncrementLost ==
    (/\ initial.exists /\ initial.data = JsonDump(V0)
     /\ UpdatesDone
     /\ \A q \in Procs : result[q].kind = "return")
    => CounterNow = UpdateCalls

\* What read_json(p) returns when called now, `busy` telling whether its
\* store read, if it makes one, finds the lock held for its whole retry budget.
ReadJsonNow(p, busy) ==
    IF EntryValid(cache[p], files[p], now) THEN cache[p].value
    ELSE IF StoreRead(files[p], DefaultNone, busy).kind = "return"
         THEN StoreRead(files[p], DefaultNone, busy).v
         ELSE DefaultNone

\* C15: after write_json(p, v, immediate=True) has succeeded and before any
\* other write to p, read_json(p) returns v, a direct safe_json_read(p)
\* returns v, and the cache entry of p is not dirty.
C15_CacheDiskAgreement ==
    \A p \in Paths : agreed[p].set =>
        /\ \A busy \in BOOLEAN : ReadJsonNow(p, busy) = agreed[p].value
        /\ \A busy \in BOOLEAN :
               StoreRead(files[p], DefaultNone, busy) = Returns(agreed[p].value)
        /\ ~cache[p].dirty

\* C15, amended: after write_json(p, v, immediate=True) has succeeded and
\* before any other write to p, the cache entry of p is not dirty; a direct
\* safe_json_read(p) returns v or raises on the lock it could not take;
\* read_json(p) returns v, or the default when it has to read the store
\* (entry expired or evicted) and that read cannot take the lock.
C15_AgreementOrLockTimeout ==
    \A p \in Paths : agreed[p].set =>
        /\ ReadJsonNow(p, FALSE) = agreed[p].value
        /\ StoreRead(files[p], DefaultNone, FALSE) = Returns(agreed[p].value)
        /\ StoreRead(files[p], DefaultNone, TRUE) = Raises("LockTimeout", "")
        /\ ReadJsonNow(p, TRUE) \in {agreed[p].value, DefaultNone}
        /\ ReadJsonNow(p, TRUE) = DefaultNone => ~EntryValid(cache[p], files[p], now)
        /\ ~cache[p].dirty

\* A thread has written path 1 through and then read it back from the store,
\* its entry having expired; the other thread has done nothing.
C15_Witness ==
    \E t \in Threads :
        /\ ops[t] = 2
        /\ \A u \in Threads \ {t} : ops[u] = 0
        /\ agreed[1] = [set |-> TRUE, value |-> CacheDoc(1)]
        /\ last[t].op = "read" /\ last[t].path = 1
        /\ last[t].store_read /\ last[t].stale
        /\ last[t].value = CacheDoc(1)

\* Thread t's step is a call of `op` on path p.
CallOn(t, op, p) ==
    ops'[t] # ops[t] /\ last'[t].op = op /\ last'[t].path = p

\* C16: eviction never removes a dirty entry: a path whose cache entry is
\* dirty still has its entry after every step that is not a read_json or a
\* write_json of that path itself, and so after every eviction run for the
\* entry of another path; when every entry is dirty none is removed, however
\* far over its capacity the table is.
C16_EvictionKeepsDirty ==
    [][\A p \in Paths :
          (/\ cache[p].present /\ cache[p].dirty
           /\ ~\E t \in Threads : CallOn(t, "write", p) \/ CallOn(t, "read", p))
          => cache'[p].present]_cvars

\* The table is over its capacity and every entry in it is dirty.
C16_Witness ==
    /\ Cardinality(InCache(cache)) > max_cache_size
    /\ \A p \in InCache(cache) : cache[p].dirty

Range(seq) == {seq[k] : k \in DOMAIN seq}
\* Thread t's step is the start of a flush_writes call.
FlushCall(t) ==
    ops'[t] # ops[t] /\ last'[t].op \in {"flush", "flushing"}
\* Thread t's step is a store write of its flush.
FlushStoreWrite(t) ==
    tpc[t] = "flushing" /\ flush_results'[t] # flush_results[t]

\* C17: a flush_writes call made after another flush_writes call has drained
\* the queue, with no write_json called in between, returns an empty map at
\* once and writes nothing to the store.
C17_SecondFlushEmpty ==
    [][\A t \in Threads :
          (FlushCall(t) /\ \E u \in Threads : quiet[u])
          => /\ last'[t].op = "flush"
             /\ last'[t].results = <<>>
             /\ last'[t].store_writes = 0
             /\ tpc'[t] = "idle"
             /\ files' = files]_cvars

\* Thread t has flushed the deferred write of thread u to the store and has
\* then called flush_writes again, which returned an empty map.
C17_Witness ==
    \E t, u \in Threads :
        /\ t # u /\ ops[t] = 2 /\ ops[u] = 1
        /\ last[u].op = "write" /\ last[u].store_writes = 0
        /\ files[last[u].path].data = JsonDump(last[u].value)
        /\ last[t].op = "flush" /\ last[t].results = <<>>

\* C18: flush_writes drains the queue atomically: every store write of a
\* flush writes a pending write its drain took and leaves the queue alone,
\* and a pending write leaves the queue only when a drain takes it or a
\* write_json of its path supersedes it; so a write enqueued while a flush is
\* in progress is not written by that flush and waits for the next one.
C18_DrainIsAtomic ==
    [][/\ \A t \in Threads :
             FlushStoreWrite(t) =>
                 /\ pending_writes' = pending_writes
                 /\ drained'[t] = drained[t]
                 /\ \E w \in Range(drained[t]) :
                        /\ w.path = flush_results'[t][Len(flush_results'[t])].path
                        /\ w.value = flush_results'[t][Len(flush_results'[t])].value
       /\ \A w \in Range(pending_writes) :
             \/ w \in Range(pending_writes')
             \/ \E t \in Threads : FlushCall(t) /\ w \in Range(drained'[t])
             \/ \E t \in Threads : CallOn(t, "write", w.path)]_cvars

\* A thread is in the middle of a flush (it has drained the queue and has not
\* written yet) and the other thread has enqueued a deferred write meanwhile.
C18_Witness ==
    \E t \in Threads :
        /\ tpc[t] = "flushing"
        /\ flush_results[t] = <<>>
        /\ pending_writes # <<>>

\* Thread t's step is a read_json of path p, whose entry is older than the
\* time to live.
ReadOfExpired(t, p) ==
    CallOn(t, "read", p) /\ cache[p].present /\ now - cache[p].cached_at > cache_ttl
\* A read_json call that hits serves an entry that is not older than the time
\* to live; one that finds an older entry reads the store.
NeverServesExpired ==
    \A t \in Threads, p \in Paths :
        /\ (CallOn(t, "read", p) /\ last'[t].hit)
           => /\ cache[p].present
              /\ now - cache[p].cached_at <= cache_ttl
              /\ last'[t].value = cache[p].value
        /\ ReadOfExpired(t, p) => ~last'[t].hit /\ last'[t].store_read

NotCleanAndWrong(c, f) ==
    \/ ~c.present
    \/ c.dirty
    \/ StoreRead(f, DefaultNone, FALSE) = Returns(c.value)

\* C20: when the store write behind write_json(p, v, immediate=True) or behind
\* flush_writes fails, the call reports success = False for p, and the cache
\* entry of p is then not marked clean with a value that differs from the file.
C20_FailedWriteLeavesEntrySound ==
    [][/\ \A t \in Threads, p \in Paths :
             (CallOn(t, "write", p) /\ last'[t].store_writes = 1 /\ files'[p].data # JsonDump(last'[t].value))
             => ~last'[t].success /\ NotCleanAndWrong(cache'[p], files'[p])
       /\ \A t \in Threads :
             (FlushStoreWrite(t) /\ ~flush_results'[t][Len(flush_results'[t])].success)
             => NotCleanAndWrong(cache'[flush_results'[t][Len(flush_results'[t])].path],
                                 files'[flush_results'[t][Len(flush_results'[t])].path])]_cvars

(***************************************************************************)
(* The retry loop of SafeJSONLock.__enter__ on its own, with the budget    *)
(* and the delay the lock is constructed with: which waits it makes.       *)
(***************************************************************************)
\* A wait counted from attempt 0.  C30 must tell it from BackoffDelay.
BackoffDelayFromZero(delay, failed) == delay * Pow2(Min(failed - 1, 4))
\* self.retry_delay * (2 ** min(retries, 4)), retries already incremented.
BackoffDelay(delay, failed) == delay * Pow2(Min(failed, 4))

\* SafeJSONLock(file_path, mode, max_retries, retry_delay), retries = 0.
BackoffInit ==
    /\ InitProcs
    /\ InitFiles(0, <<>>)
    /\ CacheIdle
    /\ MonitorIdle
    /\ RaceIdle
    /\ LoopIdle
    /\ retry_delay \in 1..MaxDelay
    /\ max_retries \in 0..MaxBudget
    /\ attempts = 0
    /\ waits = <<>>
    /\ lock_pc = "try"

\* An iteration of the loop whose flock succeeds.
AttemptSucceeds ==
    /\ lock_pc = "try"
    /\ attempts < max_retries
    /\ lock_pc' = "held"
    /\ UNCHANGED <<retry_delay, max_retries, attempts, waits>>
    /\ UNCHANGED <<vars, cvars, mvars, rvars, lvars>>

\* An iteration of the loop whose open or flock raises: the except block.
AttemptFails ==
    /\ lock_pc = "try"
    /\ attempts < max_retries
    /\ attempts' = attempts + 1
    /\ IF attempts' >= max_retries
       THEN /\ lock_pc' = "raised"
            /\ UNCHANGED waits
       ELSE /\ waits' = Append(waits, BackoffDelay(retry_delay, attempts'))
            /\ UNCHANGED lock_pc
    /\ UNCHANGED <<retry_delay, max_retries>>
    /\ UNCHANGED <<vars, cvars, mvars, rvars, lvars>>

\* The loop is not entered: the raise behind it.
NoAttempt ==
    /\ lock_pc = "try"
    /\ ~(attempts < max_retries)
    /\ lock_pc' = "raised"
    /\ UNCHANGED <<retry_delay, max_retries, attempts, waits>>
    /\ UNCHANGED <<vars, cvars, mvars, rvars, lvars>>

BackoffNext == AttemptSucceeds \/ AttemptFails \/ NoAttempt

BackoffSpec == BackoffInit /\ [][BackoffNext]_<<vars, cvars, mvars, bvars, rvars, lvars>>

(***************************************************************************)
(* Vocabulary of the monitor's properties.                                 *)
(***************************************************************************)
\* This step is the validation of file f returning.
Validated(f) == futures[f] = "pending" /\ futures'[f] = "done"
\* This step is a check of f that found its signature unchanged.
CleanCheckOf(f) == Validated(f) /\ future_result'[f].status = "unchanged"
\* This step is a check of f that validated its content.
ContentCheckOf(f) == Validated(f) /\ future_result'[f].status # "unchanged"
\* a < b, a = b for intervals given as fractions.
IntervalLess(a, b) == a.num * b.den < b.num * a.den
IntervalEqual(a, b) == a.num * b.den = b.num * a.den
\* The recheck interval of a file of the stable set, now and after the step.
StableInterval(f) == CheckInterval(file_states[f], TRUE)
StableIntervalAfter(f) == CheckInterval(file_states'[f], TRUE)
\* The largest recheck interval the backoff produces.
LongestInterval == Min(max_check_interval, min_check_interval * Pow2(4))

\* C21 as stated: a file checked stable_threshold times in a row with an
\* unchanged signature is in the stable set, and every further clean check
\* either lengthens its recheck interval or finds it at max_check_interval.
C21_BackoffReachesMaximum ==
    /\ [](\A f \in MonFiles :
              file_states[f].known /\ file_states[f].check_count >= stable_threshold
                  => f \in stable_files)
    /\ [][\A f \in MonFiles :
              CleanCheckOf(f) /\ f \in stable_files
                  => \/ IntervalLess(StableInterval(f), StableIntervalAfter(f))
                     \/ StableInterval(f).num = max_check_interval * StableInterval(f).den
         ]_mvars

\* C21, amended: a file checked stable_threshold times in a row with an
\* unchanged signature is in the stable set; every further clean check
\* lengthens its recheck interval while its counter is at most four above
\* stable_threshold, and from then on the interval stays at
\* min(max_check_interval, 16 * min_check_interval), which is 160 seconds and
\* not max_check_interval.
C21_StableThenBackoffToCap ==
    /\ [](\A f \in MonFiles :
              file_states[f].known /\ file_states[f].check_count >= stable_threshold
                  => f \in stable_files)
    /\ [][\A f \in MonFiles :
              CleanCheckOf(f) /\ f \in stable_files
                  => IF file_states'[f].check_count - stable_threshold <= 4
                     THEN IntervalLess(StableInterval(f), StableIntervalAfter(f))
                     ELSE /\ StableIntervalAfter(f) = StableInterval(f)
                          /\ StableInterval(f) = [num |-> LongestInterval, den |-> 1]
                          /\ LongestInterval < max_check_interval
         ]_mvars
\* A stable file has had a clean check that left its interval as it was.
C21_Witness ==
    \E f \in MonFiles :
        /\ f \in stable_files
        /\ file_states[f].check_count > stable_threshold + 4
        /\ futures[f] = "done"
        /\ future_result[f].status = "unchanged"

\* C22: when a monitor that validates through the Store checks a file of the
\* stable set whose signature has changed, the file leaves the stable set,
\* is marked dirty, and its clean-check counter is reset, in that same check.
C22_ChangeOfStableFileMarksDirty ==
    [][\A f \in MonFiles :
           /\ ContentCheckOf(f)
           /\ ~use_cache
           /\ f \in stable_files
           /\ mon_files[f].mtime # file_states[f].last_mtime
           /\ future_result'[f].status \in {"valid", "invalid"}
           => /\ f \notin stable_files'
              /\ f \in dirty_files'
              /\ file_states'[f].is_dirty
              /\ file_states'[f].check_count <= 1
      ]_mvars

\* C23: when a monitor that validates through the Store checks a new or
\* changed file and the read meets no fault, content that is non-empty and
\* not valid JSON gives status invalid, the path added to the dirty set and
\* removed from the stable set; content that is valid JSON gives status
\* valid and the path removed from the dirty set.
C23_StoreValidationClassifies ==
    [][\A f \in MonFiles :
           ContentCheckOf(f) /\ ~use_cache /\ nfaults' = nfaults
           => /\ Strip(mon_files[f].data) # <<>> /\ ~ValidJson(mon_files[f].data)
                  => /\ future_result'[f].status = "invalid"
                     /\ f \in dirty_files'
                     /\ f \notin stable_files'
              /\ ValidJson(mon_files[f].data)
                  => /\ future_result'[f].status = "valid"
                     /\ f \notin dirty_files'
      ]_mvars

\* This step is batch_validate returning the summary of a batch of checks.
BatchReturning == bpc = "shutdown" /\ bpc' = "idle"
\* The validation of f has ended in the handler of `except Exception`.
ValidationRaised(f) == futures[f] = "done" /\ future_result[f].status = "error"

C25_TimeoutDoesNotBlockReturn ==
    bpc = "shutdown" => ENABLED BatchReturn

\* This step is a batch_validate call selecting its files.
BatchStarting == bpc = "idle" /\ mon_now' = mon_now /\ mon_files' = mon_files
\* The files the batch that starts with this step checks.
Selected == IF bpc' = "collect" THEN Range(files_to_check') ELSE {}
\* The time since the last check of f is at least its adaptive interval:
\* min_check_interval * 2^k held at max_check_interval, k the smaller of 4
\* and the clean-check counter less stable_threshold, for a file of the
\* stable set, and min_check_interval for any other file.
IntervalElapsed(f) ==
    LET elapsed == mon_now - file_states[f].last_check
        k == Min(file_states[f].check_count - stable_threshold, 4)
    IN IF f \notin stable_files THEN elapsed >= min_check_interval
       ELSE IF k >= 0
       THEN elapsed >= Min(max_check_interval, min_check_interval * Pow2(k))
       ELSE elapsed * Pow2(0 - k) >= min_check_interval

\* C26: batch_validate(force_all=False) checks a monitored file exactly when
\* the file has no recorded state or the time since its last check is at
\* least its adaptive interval; batch_validate(force_all=True) checks every
\* monitored file.
C26_ChecksExactlyTheDueFiles ==
    [][BatchStarting =>
           \A f \in MonFiles :
               f \in Selected <=>
                   /\ mon_files[f].exists
                   /\ \/ force_all'
                      \/ ~file_states[f].known
                      \/ IntervalElapsed(f)
      ]_mvars
\* A batch that was not forced has selected a stable file whose doubled
\* interval had just elapsed.
C26_Witness ==
    /\ bpc = "collect"
    /\ ~force_all
    /\ \E f \in Range(files_to_check) :
           /\ f \in stable_files
           /\ file_states[f].check_count > stable_threshold
           /\ mon_now - file_states[f].last_check = 2 * min_check_interval
           /\ futures[f] = "pending"

\* C27: every step that changes the content of an existing target path is
\* taken by a caller that holds, at that moment, the exclusive lock on the
\* target.
C27_ContentChangesUnderLock ==
    [][FileNow.exists /\ FileNow'.data # FileNow.data =>
           \E q \in Procs :
               /\ pc'[q] # pc[q]
               /\ HoldsLock(q)
               /\ file_handle[q] = target
      ]_vars

\* C28: a file whose last content validation was invalid is not in the stable
\* set and keeps its dirty marking.
C28_StableFilesPassedValidation ==
    \A f \in MonFiles :
        file_states[f].known /\ file_states[f].error_count > 0
            => /\ f \notin stable_files
               /\ f \in dirty_files
               /\ file_states[f].is_dirty

\* The recorded state of f carries the signature the file has now.
SignatureRecorded(f) ==
    /\ file_states[f].known
    /\ mon_files[f].exists
    /\ file_states[f].last_mtime = mon_files[f].mtime
    /\ file_states[f].last_size = Len(mon_files[f].data)

\* C29: a check that finds a recorded state with the current signature, and
\* meets no fault, validates no content (the statistics and the reads of the
\* file are as before), increments the clean-check counter by exactly 1,
\* sets last_check to the time of the check, returns status unchanged, and
\* adds the path to the stable set exactly when the counter has reached
\* stable_threshold; the other files' states stay as they were.
C29_CleanCheckOnlyCounts ==
    [][\A f \in MonFiles :
           Validated(f) /\ SignatureRecorded(f) /\ nfaults' = nfaults
           => /\ stats' = stats
              /\ content_reads' = content_reads
              /\ file_states'[f].check_count = file_states[f].check_count + 1
              /\ file_states'[f].last_check = mon_now
              /\ file_states'[f].last_mtime = file_states[f].last_mtime
              /\ file_states'[f].last_size = file_states[f].last_size
              /\ future_result'[f].status = "unchanged"
              /\ stable_files' =
                     IF file_states'[f].check_count >= stable_threshold
                     THEN stable_files \cup {f} ELSE stable_files
              /\ \A g \in MonFiles \ {f} : file_states'[g] = file_states[g]
      ]_mvars
\* A clean check has just taken a file to stable_threshold and into the
\* stable set, later than its last content check.
C29_Witness ==
    \E f \in MonFiles :
        /\ futures[f] = "done"
        /\ future_result[f].status = "unchanged"
        /\ future_result[f].stable
        /\ file_states[f].check_count = stable_threshold
        /\ file_states[f].last_check > 0
        /\ stats.total_checks = 1
        /\ content_reads[f] = 1

\* The factor of the wait after failed attempt number i: 2, 4, 8, then 16.
ClaimedFactor(i) == CASE i = 1 -> 2 [] i = 2 -> 4 [] i = 3 -> 8 [] OTHER -> 16

\* C30: the wait after failed attempt number i is retry_delay * 2^min(i, 4);
\* the waits never decrease and never exceed 16 * retry_delay; and no wait
\* follows the attempt that exhausts the budget: a lock that has raised made
\* one wait less than it made attempts.
C30_BackoffWaits ==
    /\ \A i \in DOMAIN waits : waits[i] = retry_delay * ClaimedFactor(i)
    /\ \A i, j \in DOMAIN waits : i <= j => waits[i] <= waits[j]
    /\ \A i \in DOMAIN waits : waits[i] <= 16 * retry_delay
    /\ Len(waits) <= attempts
    /\ attempts <= max_retries
    /\ attempts = max_retries /\ max_retries > 0
           => lock_pc = "raised" /\ Len(waits) = max_retries - 1
    /\ lock_pc = "try" => Len(waits) = attempts
\* A lock has given up after more than five attempts, its last waits equal.
C30_Witness ==
    /\ lock_pc = "raised"
    /\ attempts = max_retries
    /\ Len(waits) > 5
    /\ waits[Len(waits)] = waits[4]
    /\ waits[1] < waits[4]

\* The paths with a recorded file state: the keys of self.file_states.
RecordedFiles == {f \in MonFiles : file_states[f].known}

\* C33: after any sequence of checks and batches the dirty set and the
\* stable set are disjoint, and both hold only paths with a recorded file
\* state.
C33_DirtyAndStableDisjoint ==
    /\ dirty_files \cap stable_files = {}
    /\ dirty_files \subseteq RecordedFiles
    /\ stable_files \subseteq RecordedFiles
\* A file that went through five checks and more was rewritten, and its
\* second content validation has found it invalid.
C33_Witness ==
    /\ 1 \in dirty_files
    /\ 1 \notin stable_files
    /\ content_reads[1] = 2
    /\ nmods = 1
    /\ nfaults = 0
    /\ nchecks > stable_threshold

\* C36: in every reachable monitor state a path is in the dirty set if and
\* only if its recorded file state has is_dirty set.
C36_DirtySetIsDirtyFlag ==
    \A f \in MonFiles :
        f \in dirty_files <=> (file_states[f].known /\ file_states[f].is_dirty)
\* An invalid file has left the dirty set, not being rewritten: its checks
\* found it unchanged until it counted as stable.
C36_Witness ==
    /\ 1 \in stable_files
    /\ 1 \notin dirty_files
    /\ file_states[1].error_count = 1
    /\ ~file_states[1].is_dirty
    /\ nmods = 0

\* The recheck interval _should_check_file uses for a file lies between
\* min_check_interval and max_check_interval.
IntervalWithinBounds(f) ==
    LET check_interval == CheckInterval(file_states[f], f \in stable_files) IN
    /\ check_interval.num >= min_check_interval * check_interval.den
    /\ check_interval.num <= max_check_interval * check_interval.den

\* C34: for every file with a recorded state the recheck interval used by
\* _should_check_file is at least min_check_interval and at most
\* max_check_interval, and a batch that is not forced never selects a file
\* sooner than min_check_interval after its last check.
C34_IntervalWithinBounds ==
    /\ [](\A f \in MonFiles : file_states[f].known => IntervalWithinBounds(f))
    /\ [][BatchStarting /\ ~force_all' =>
              \A f \in Selected :
                  file_states[f].known =>
                      mon_now - file_states[f].last_check >= min_check_interval
         ]_<<vars, cvars, mvars, bvars, rvars, lvars>>

\* batch_validate returns without having submitted a validation.
EarlyReturn == BatchStarting /\ bpc' = "idle"
\* The statuses a result of a batch can have.
ResultStatuses == {"valid", "invalid", "unchanged", "error", "timeout"}

\* C37: batch_validate returns exactly one result per selected file: the
\* files selected at its start are the files of its results, each once;
\* checked is their number; every result has one of the five statuses; and
\* valid + invalid + errors = checked - the number of unchanged results.  A
\* batch that selects no file returns checked = 0 and changes no file state,
\* set or counter.
C37_OneResultPerSelectedFile ==
    [][/\ BatchStarting /\ bpc' = "collect" => results' = <<>>
       /\ bpc # "idle" /\ ~BatchReturning => files_to_check' = files_to_check
       /\ BatchReturning =>
              /\ summary'.checked = Len(files_to_check)
              /\ DOMAIN summary'.results = DOMAIN files_to_check
              /\ \A f \in Range(files_to_check) :
                     Cardinality({i \in DOMAIN summary'.results :
                                      summary'.results[i].path = f}) = 1
              /\ \A i \in DOMAIN summary'.results :
                     summary'.results[i].status \in ResultStatuses
              /\ summary'.valid + summary'.invalid + summary'.errors
                     = summary'.checked
                           - Cardinality({i \in DOMAIN summary'.results :
                                 summary'.results[i].status = "unchanged"})
       /\ EarlyReturn =>
              /\ summary'.status = "no_files_to_check"
              /\ summary'.checked = 0
              /\ summary'.results = <<>>
              /\ UNCHANGED <<file_states, dirty_files, stable_files, stats,
                             mon_files>>
      ]_mvars
\* A batch found no file due and returned at once, after an earlier batch
\* had validated both files and found one of them invalid.
C37_Witness ==
    /\ bpc = "idle"
    /\ summary.status = "no_files_to_check"
    /\ summary.checked = 0
    /\ summary.dirty = 1
    /\ stats.total_checks = NumFiles
    /\ stats.batch_validations = 1

\* The read of caller q's update fails, or its update_func raises on the
\* value read: decided on the file as it was when the call began.
UpdateFailsBeforeWrite(q) ==
    LET current_data == ReadAtStart(q, call[q].default) IN
    \/ current_data.kind = "raise"
    \/ ~increment_func(current_data.v, q).ok

\* C32: if the read of safe_json_update fails or its update_func raises, the
\* update raises and writes nothing: the target file, the backup file and
\* the temporary files are as they were before the call.  An update that has
\* not reached its write changes none of them, step by step, and the
\* failing update has raised on the file the call found.
C32_FailedUpdateWritesNothing ==
    /\ [](Ended(1, "update") /\ UpdateFailsBeforeWrite(1) =>
              /\ result[1].kind = "raise"
              /\ result[1].err = "UpdateFailed"
              /\ call[1].phase = "read"
              /\ target = snap[1].ino
              /\ FileNow = [exists |-> snap[1].exists, data |-> snap[1].data]
              /\ temp_path[1] = 0)
    /\ [][call'[1].name = "update" /\ call'[1].phase = "read" =>
              UNCHANGED <<target, idata, backup_file, temp_path>>
         ]_vars
\* An update has raised on a file that holds a JSON array, which update_func
\* does not accept, after a write that left a backup: file and backup stand.
C32_Witness ==
    /\ Ended(1, "update")
    /\ result[1] = Raises("UpdateFailed", "update_func")
    /\ FileNow.exists
    /\ ~Blank(FileNow.data)
    /\ backup_file.exists
    /\ Len(log[1]) >= 2

\* The content validations made so far, and those that found the file
\* invalid: no file is rewritten, so each file is validated once at most and
\* error_count keeps its verdict.
ContentValidations == {f \in MonFiles : content_reads[f] > 0}
InvalidVerdicts == {f \in ContentValidations : file_states[f].error_count = 1}

\* C31: the concurrent workers of a batch lose no update of the shared
\* state: once a batch has returned, total_checks has grown by one for each
\* content validation, dirty_detections by one for each invalid verdict, and
\* the dirty set holds every file a worker found invalid.
C31_WorkersLoseNoUpdate ==
    bpc = "idle" =>
        /\ stats.total_checks = Cardinality(ContentValidations)
        /\ stats.dirty_detections = Cardinality(InvalidVerdicts)
        /\ InvalidVerdicts \subseteq dirty_files \cup stable_files
        /\ \A f \in MonFiles : content_reads[f] <= 1

\* The threads that have passed `while self.running` and are about to run a
\* batch of the monitoring loop.
LoopsInBatch == {t \in LoopThreads : lpc[t] = "batch"}

\* C35: at most one background monitoring loop is active at any time, for
\* every sequence of start_monitoring and stop_monitoring calls: no two
\* threads are in the body of _monitor_loop, about to validate a batch.
C35_AtMostOneLoop == Cardinality(LoopsInBatch) <= 1

====
